---- MODULE Spec2Model ----
(***************************************************************************)
(* A model of the expenses dashboard client: the analytics and Sankey      *)
(* graph construction, the monthly dashboard's fetch/mutation cycle, the   *)
(* yearly dashboard, the transaction / category / bulk-import forms and    *)
(* the request credential built by the API client.                         *)
(*                                                                         *)
(* Money is modelled in integer units (the code uses IEEE doubles; sums of *)
(* small integers are exact in both).  Each component has its own          *)
(* specification over its own variables; the other variables stay put.     *)
(***************************************************************************)
EXTENDS Integers, Sequences, FiniteSets, TLC

VARIABLES
  \* ---- Sankey pipeline (App.tsx monthlySankeyData -> SankeyChart) ----
  skTransactions,   \* the transactions state the monthly dashboard renders
  skData,           \* monthlySankeyData: [nodes, links]
  skModified,       \* SankeyChart layout: modifiedLinks
  \* ---- Dashboard (App.tsx), monthly view ----
  month,            \* selected month
  viewMode,         \* selected view
  transactions,     \* the list state: which backend answer it holds
  loading,
  error,            \* inline banner of the monthly view
  alerted,          \* text of the last window.alert, or NoMessage
  isModalOpen,      \* AddTransactionModal
  isBulkModalOpen,  \* BulkImportModal
  isSubmitting,     \* AddTransactionModal: submit flag
  modalError,       \* AddTransactionModal: inline banner
  isImporting,      \* BulkImportModal: its isSubmitting flag
  bulkError,        \* BulkImportModal: inline banner
  requests,         \* calls in flight, each with the closure that awaits it
  nextId,           \* next request id
  dbVersion,        \* backend: per month, the number of mutations applied
  refetch,          \* what the last step did, when it completed a mutation
  \* ---- AddTransactionModal ----
  form,             \* the component's state and props
  formCalls,        \* its calls in flight, each with what it carries
  \* ---- YearlyDashboard ----
  ledger,           \* the backend's transactions of the selected year
  yearly,           \* the component's state
  yearlyCalls,      \* its calls in flight
  yearlyFailed,     \* whether the last step was a call of its settling as failed
  \* ---- App and the API client ----
  user,             \* App's user state (<<>> when logged out)
  localStorageUser, \* the 'user' entry of localStorage (<<>> when absent)
  environment,      \* the build's import.meta.env and process.env
  request,          \* the last request handed to fetch (<<>> before the first)
  \* ---- BulkImportModal ----
  bulk,             \* the component's state and props
  bulkCalls,        \* its calls in flight, each with what it carries
  \* ---- AddCategoryModal ----
  categoryForm,     \* the component's state and props
  categoryCalls,    \* its calls in flight, each with what it carries
  categorySettled,        \* the handler that last completed: outcome, props called
  \* ---- CategoryManager and the Dashboard state it depends on ----
  categoryRefreshTrigger, \* Dashboard state, the manager's refreshTrigger prop
  categoryManager,        \* the mounted instance's state
  managerCalls,           \* calls in flight, by kind; stale = of an unmounted instance
  \* ---- LoginPage with TwoFactorVerification ----
  login,            \* LoginPage state
  twoFactor,        \* TwoFactorVerification state while it is shown
  loginCalls,       \* awaited calls and timers, each with what its closure holds
  loginLog,         \* what has succeeded so far, and the users passed to onLogin
  \* ---- TwoFactorSetup, shown by the Dashboard ----
  setup,            \* the wizard's state (mounted while viewMode is '2fa-setup')
  setupCalls        \* its calls and timers in flight; stale = of an unmounted instance

sankeyVars == <<skTransactions, skData, skModified>>
dashVars == <<month, viewMode, transactions, loading, error, alerted, isModalOpen,
              isBulkModalOpen, isSubmitting, modalError, isImporting, bulkError,
              requests, nextId, dbVersion, refetch>>

formVars == <<form, formCalls>>

yearlyVars == <<ledger, yearly, yearlyCalls, yearlyFailed>>

apiVars == <<user, localStorageUser, environment, request>>

bulkVars == <<bulk, bulkCalls>>

managerVars == <<categoryRefreshTrigger, categoryManager, managerCalls>>
categoryVars == <<categoryForm, categoryCalls, categorySettled, managerVars>>

loginVars == <<login, twoFactor, loginCalls, loginLog>>

setupVars == <<setup, setupCalls>>

vars == <<sankeyVars, dashVars, formVars, yearlyVars, apiVars, bulkVars,
          categoryVars, loginVars, setupVars>>

\* what each component's actions leave alone
notSankey == <<dashVars, formVars, yearlyVars, apiVars, bulkVars,
               categoryVars, loginVars, setupVars>>
notDash == <<sankeyVars, formVars, yearlyVars, apiVars, bulkVars,
             categoryVars, loginVars, setupVars>>
notForm == <<sankeyVars, dashVars, yearlyVars, apiVars, bulkVars,
             categoryVars, loginVars, setupVars>>
notYearly == <<sankeyVars, dashVars, formVars, apiVars, bulkVars,
               categoryVars, loginVars, setupVars>>
notApi == <<sankeyVars, dashVars, formVars, yearlyVars, bulkVars,
            categoryVars, loginVars, setupVars>>
notBulk == <<sankeyVars, dashVars, formVars, yearlyVars, apiVars,
             categoryVars, loginVars, setupVars>>
notCategory == <<sankeyVars, dashVars, formVars, yearlyVars, apiVars,
                 bulkVars, loginVars, setupVars>>
notLogin == <<sankeyVars, dashVars, formVars, yearlyVars, apiVars, bulkVars,
              categoryVars, setupVars>>
notSetup == <<sankeyVars, dashVars, formVars, yearlyVars, apiVars, bulkVars,
              categoryVars, loginVars>>

(***************************************************************************)
(* Bounds                                                                  *)
(***************************************************************************)
MaxTx == 3        \* longest transaction list handed to the analytics
MaxAmt == 2       \* amounts range over -MaxAmt..MaxAmt

CategoryNames == {"A", "B"}
Amounts == (0 - MaxAmt)..MaxAmt
\* a Transaction (types.ts), reduced to the fields the analytics read
TransactionT == [category : CategoryNames, amount : Amounts]
TransactionLists == UNION {[1..n -> TransactionT] : n \in 0..MaxTx}

(***************************************************************************)
(* Generic helpers                                                         *)
(***************************************************************************)
RECURSIVE SumSeq(_)
SumSeq(s) == IF s = <<>> THEN 0 ELSE Head(s) + SumSeq(Tail(s))

\* Array.prototype.filter
FilterSeq(s, P(_)) == SelectSeq(s, P)

MapSeq(s, F(_)) == [i \in 1..Len(s) |-> F(s[i])]

Abs(x) == IF x < 0 THEN 0 - x ELSE x
Max(a, b) == IF a >= b THEN a ELSE b

\* Array.prototype.sort((a, b) => b.value - a.value): stable, descending
InsertDesc(sorted, e) ==
  LET k == Cardinality({i \in 1..Len(sorted) : sorted[i].value >= e.value})
  IN  SubSeq(sorted, 1, k) \o <<e>> \o SubSeq(sorted, k + 1, Len(sorted))

RECURSIVE SortDesc(_)
SortDesc(s) ==
  IF s = <<>> THEN <<>>
  ELSE InsertDesc(SortDesc(SubSeq(s, 1, Len(s) - 1)), s[Len(s)])

(***************************************************************************)
(* utils/analytics.ts                                                      *)
(***************************************************************************)
COLORS == <<"#6366f1", "#8b5cf6", "#ec4899", "#f43f5e", "#f97316", "#eab308",
            "#10b981", "#06b6d4", "#3b82f6">>

\* map[catName] = (map[catName] || 0) + amount, keys kept in insertion order
MapAdd(entries, name, amt) ==
  IF \E i \in 1..Len(entries) : entries[i].name = name
  THEN [i \in 1..Len(entries) |->
          IF entries[i].name = name
          THEN [entries[i] EXCEPT !.value = @ + amt]
          ELSE entries[i]]
  ELSE Append(entries, [name |-> name, value |-> amt])

\* txs.forEach(t => map[t.category.name] = ... + amount), then
\* Object.entries(map)
RECURSIVE GroupByCategory(_)
GroupByCategory(txs) ==
  IF txs = <<>> THEN <<>>
  ELSE LET t == txs[Len(txs)]
       IN  MapAdd(GroupByCategory(SubSeq(txs, 1, Len(txs) - 1)),
                  t.category, t.amount)

WithColors(entries) ==
  [i \in 1..Len(entries) |->
     [name |-> entries[i].name, value |-> entries[i].value,
      color |-> COLORS[((i - 1) % Len(COLORS)) + 1]]]

\* getExpensesByCategory: every amount is summed into its category, sign kept
getExpensesByCategory(txs) ==
  SortDesc(WithColors(GroupByCategory(txs)))

\* getIncomesByCategory: the negative (income) amounts, by category, as
\* positive totals
getIncomesByCategory(txs) ==
  LET IsIncome(t) == t.amount < 0
      Magnitude(t) == [t EXCEPT !.amount = Abs(@)]
  IN  SortDesc(WithColors(GroupByCategory(
        MapSeq(FilterSeq(txs, IsIncome), Magnitude))))

\* calculateFinancials: income = total of the negative amounts (as a positive
\* number), expense = total of the positive amounts, savings = the difference
calculateFinancials(txs) ==
  LET IsIncome(t) == t.amount < 0
      IsExpense(t) == t.amount > 0
      Amount(t) == t.amount
      income == 0 - SumSeq(MapSeq(FilterSeq(txs, IsIncome), Amount))
      expense == SumSeq(MapSeq(FilterSeq(txs, IsExpense), Amount))
  IN  [income |-> income, expense |-> expense, savings |-> income - expense]

(***************************************************************************)
(* App.tsx: monthlySankeyData                                              *)
(***************************************************************************)
GreenColor == "#10b981"
RedColor == "#ef4444"

SankeyGraph(incomes, expenses, savings) ==
  LET incomeNodes == [i \in 1..Len(incomes) |->
                        [id |-> "income-" \o incomes[i].name,
                         label |-> incomes[i].name, color |-> incomes[i].color]]
      totalNode == <<[id |-> "income", label |-> "Total Income", color |-> GreenColor]>>
      savingsNode == IF savings > 0
                     THEN <<[id |-> "SAVINGS", label |-> "SAVINGS", color |-> GreenColor]>>
                     ELSE <<>>
      expenseNodes == [i \in 1..Len(expenses) |->
                         [id |-> "expense-" \o expenses[i].name,
                          label |-> expenses[i].name, color |-> expenses[i].color]]
      incomeLinks == [i \in 1..Len(incomes) |->
                        [source |-> "income-" \o incomes[i].name, target |-> "income",
                         value |-> incomes[i].value, color |-> incomes[i].color]]
      savingsLink == IF savings > 0
                     THEN <<[source |-> "income", target |-> "SAVINGS",
                             value |-> savings, color |-> GreenColor]>>
                     ELSE <<>>
      expenseLinks == [i \in 1..Len(expenses) |->
                         [source |-> "income", target |-> "expense-" \o expenses[i].name,
                          value |-> expenses[i].value, color |-> expenses[i].color]]
  IN  [nodes |-> incomeNodes \o totalNode \o savingsNode \o expenseNodes,
       links |-> incomeLinks \o savingsLink \o expenseLinks]

monthlySankeyData(txs) ==
  SankeyGraph(getIncomesByCategory(txs),
              getExpensesByCategory(txs),
              calculateFinancials(txs).savings)

\* sums of link values entering / leaving a node of a link list
Inbound(links, id) ==
  LET Into(l) == l.target = id
      Value(l) == l.value
  IN  SumSeq(MapSeq(FilterSeq(links, Into), Value))

Outbound(links, id) ==
  LET From(l) == l.source = id
      Value(l) == l.value
  IN  SumSeq(MapSeq(FilterSeq(links, From), Value))

(***************************************************************************)
(* SankeyChart (four-column revision): node values and modifiedLinks       *)
(***************************************************************************)
\* nodeValues.get(id) || 0, after the income override
nodeValues(links, id) ==
  LET incomeValue == Max(Inbound(links, "income"), Outbound(links, "income"))
  IN  IF id = "income"
      THEN (IF incomeValue > 0 THEN incomeValue ELSE Outbound(links, "income"))
      ELSE Outbound(links, id) + Inbound(links, id)

rightNodes(nodes, links) ==
  LET Receives(n) == n.id # "income" /\
                     \E i \in 1..Len(links) :
                        links[i].source = "income" /\ links[i].target = n.id
  IN  FilterSeq(nodes, Receives)

savingsNodes(nodes, links) ==
  LET IsSavings(n) == n.id = "SAVINGS"
  IN  FilterSeq(rightNodes(nodes, links), IsSavings)

expenseNodes(nodes, links) ==
  LET NotSavings(n) == n.id # "SAVINGS"
  IN  FilterSeq(rightNodes(nodes, links), NotSavings)

totalExpensesValue(nodes, links) ==
  LET V(n) == nodeValues(links, n.id)
  IN  SumSeq(MapSeq(expenseNodes(nodes, links), V))

savingsValue(nodes, links) ==
  LET V(n) == nodeValues(links, n.id)
  IN  SumSeq(MapSeq(savingsNodes(nodes, links), V))

modifiedLinks(nodes, links) ==
  LET ToIncome(l) == l.target = "income"
      sv == savingsValue(nodes, links)
      tev == totalExpensesValue(nodes, links)
      sn == savingsNodes(nodes, links)
      Positive(n) == nodeValues(links, n.id) > 0
      CategoryLink(n) == [source |-> "total-expenses", target |-> n.id,
                          value |-> nodeValues(links, n.id), color |-> n.color]
  IN  FilterSeq(links, ToIncome)
      \o (IF sv > 0
          THEN <<[source |-> "income", target |-> "SAVINGS", value |-> sv,
                  color |-> sn[1].color]>>
          ELSE <<>>)
      \o (IF tev > 0
          THEN <<[source |-> "income", target |-> "total-expenses", value |-> tev,
                  color |-> RedColor]>>
          ELSE <<>>)
      \o MapSeq(FilterSeq(expenseNodes(nodes, links), Positive), CategoryLink)

(***************************************************************************)
(* JavaScript numbers of the layout: the fraction n/d with d > 0, or, with *)
(* d = 0, NaN (n = 0) and +Infinity / -Infinity (n = 1 / n = -1)           *)
(***************************************************************************)
NaN == [n |-> 0, d |-> 0]
Num(k) == [n |-> k, d |-> 1]
Sign(k) == IF k > 0 THEN 1 ELSE IF k < 0 THEN 0 - 1 ELSE 0
IsNaN(x) == x.d = 0 /\ x.n = 0

RECURSIVE GCD(_, _)
GCD(a, b) == IF b = 0 THEN a ELSE GCD(b, a % b)

\* the fraction a / b in lowest terms, b > 0
Fraction(a, b) ==
  LET g == GCD(Abs(a), b)
  IN  [n |-> a \div g, d |-> b \div g]

\* x * y
Times(x, y) ==
  IF x.d # 0 /\ y.d # 0 THEN Fraction(x.n * y.n, x.d * y.d)
  ELSE [n |-> Sign(x.n) * Sign(y.n), d |-> 0]

\* a / b of two integers
Quotient(a, b) ==
  IF b = 0 THEN [n |-> Sign(a), d |-> 0]
  ELSE Fraction(a * Sign(b), b * Sign(b))

\* x + y
Plus(x, y) ==
  IF x.d # 0 /\ y.d # 0 THEN Fraction(x.n * y.d + y.n * x.d, x.d * y.d)
  ELSE IF IsNaN(x) \/ IsNaN(y) THEN NaN
  ELSE IF x.d # 0 THEN y
  ELSE IF y.d # 0 THEN x
  ELSE IF x.n = y.n THEN x ELSE NaN

\* x <= y (false when either is NaN)
Leq(x, y) ==
  /\ ~IsNaN(x) /\ ~IsNaN(y)
  /\ IF x.d # 0 /\ y.d # 0 THEN x.n * y.d <= y.n * x.d
     ELSE IF x.d = 0 THEN x.n < 0 \/ (y.d = 0 /\ y.n > 0)
     ELSE y.n > 0

Equal(x, y) == Leq(x, y) /\ Leq(y, x)

\* Math.max(x, y)
MathMax(x, y) ==
  IF IsNaN(x) \/ IsNaN(y) THEN NaN ELSE IF Leq(x, y) THEN y ELSE x

\* x || y
OrNumber(x, y) == IF IsNaN(x) \/ Equal(x, Num(0)) THEN y ELSE x

RECURSIVE SumNumbers(_)
SumNumbers(s) == IF s = <<>> THEN Num(0) ELSE Plus(Head(s), SumNumbers(Tail(s)))

(***************************************************************************)
(* SankeyChart (four-column revision): layout of the nodes                 *)
(***************************************************************************)
chartHeight == 500      \* <SankeyChart height={500} />
verticalPadding == 15   \* width < 500 ? 4 : width < 700 ? 8 : 15, at width 900
nodeGap == 8
availableHeight == chartHeight - verticalPadding * 2

\* (value / totalValue) * availableHeight * 0.8
proportionalHeight(value, totalValue) ==
  Quotient(value * availableHeight * 4, totalValue * 5)

incomeSourceCategories(nodes, links) ==
  LET Sends(n) == n.id # "income" /\
                  \E i \in 1..Len(links) :
                     links[i].source = n.id /\ links[i].target = "income"
  IN  FilterSeq(nodes, Sends)

\* a column of category nodes: sorted by value, each Math.max(.., 15) high,
\* currentY += nodeHeight + nodeGap
RECURSIVE stackColumn(_, _, _, _)
stackColumn(sorted, y, totalValue, type) ==
  IF sorted = <<>> THEN <<>>
  ELSE LET e == Head(sorted)
           nodeHeight == MathMax(proportionalHeight(e.value, totalValue), Num(15))
       IN  <<[id |-> e.id, y |-> y, height |-> nodeHeight,
              value |-> e.value, type |-> type]>>
           \o stackColumn(Tail(sorted), Plus(y, Plus(nodeHeight, Num(nodeGap))),
                          totalValue, type)

\* allPositions
layout(nodes, links) ==
  LET WithValue(n) == [id |-> n.id, value |-> nodeValues(links, n.id)]
      Value(l) == l.value
      IsIncome(n) == n.id = "income"
      incomeIncoming == Inbound(links, "income")
      incomeValue == Max(incomeIncoming, Outbound(links, "income"))
      totalValue == SumSeq(MapSeq(links, Value))
      sv == savingsValue(nodes, links)
      tev == totalExpensesValue(nodes, links)
      incomeHeight == proportionalHeight(incomeValue, totalValue)
      savingsHeight == IF sv > 0
                       THEN Times(Quotient(sv, incomeValue), incomeHeight)
                       ELSE Num(0)
      totalExpensesHeight == IF tev > 0 /\ incomeValue > 0
                             THEN Times(Quotient(tev, incomeValue), incomeHeight)
                             ELSE Num(0)
      col3Gap == IF Leq(Num(0), savingsHeight) /\ ~Equal(savingsHeight, Num(0))
                    /\ Leq(Num(0), totalExpensesHeight)
                    /\ ~Equal(totalExpensesHeight, Num(0))
                 THEN nodeGap * 3 ELSE 0
      totalExpensesY == IF sv > 0
                        THEN Plus(Num(verticalPadding),
                                  Plus(savingsHeight, Num(col3Gap)))
                        ELSE Num(verticalPadding)
      col1Positions ==
        stackColumn(SortDesc(MapSeq(incomeSourceCategories(nodes, links), WithValue)),
                    Num(verticalPadding), totalValue, "income")
      col2Position ==
        IF FilterSeq(nodes, IsIncome) = <<>> THEN <<>>
        ELSE <<[id |-> "income", y |-> Num(verticalPadding), height |-> incomeHeight,
                value |-> incomeIncoming, type |-> "total"]>>
      col3Positions ==
        (IF sv > 0
         THEN <<[id |-> "SAVINGS", y |-> Num(verticalPadding),
                 height |-> savingsHeight, value |-> sv, type |-> "savings"]>>
         ELSE <<>>)
        \o (IF tev > 0
            THEN <<[id |-> "total-expenses", y |-> totalExpensesY,
                    height |-> totalExpensesHeight, value |-> tev,
                    type |-> "total-expenses"]>>
            ELSE <<>>)
      col4Positions ==
        stackColumn(SortDesc(MapSeq(expenseNodes(nodes, links), WithValue)),
                    MathMax(Num(verticalPadding), totalExpensesY),
                    totalValue, "expense")
  IN  col1Positions \o col2Position \o col3Positions \o col4Positions

(***************************************************************************)
(* SankeyChart (four-column revision): linkPaths                           *)
(***************************************************************************)
\* allPositions.find(n => n.id === id): <<>> when there is none
positionOf(positions, id) ==
  LET Is(p) == p.id = id
  IN  FilterSeq(positions, Is)

\* updatedNodeValues.get(id) || 0
updatedNodeValues(nodes, links, id) ==
  LET modified == modifiedLinks(nodes, links)
  IN  IF id = "income"
      THEN Max(Inbound(links, "income"), Outbound(links, "income"))
      ELSE IF id = "total-expenses" THEN totalExpensesValue(nodes, links)
      ELSE Outbound(modified, id) + Inbound(modified, id)

\* sortedLinks: the links grouped by source in order of first appearance, each
\* group sorted by (target?.y || 0), a comparison with NaN counting as equal
RECURSIVE sortedLinks(_, _)
sortedLinks(positions, modified) ==
  IF modified = <<>> THEN <<>>
  ELSE LET link == modified[Len(modified)]
           rest == sortedLinks(positions, SubSeq(modified, 1, Len(modified) - 1))
           TargetY(l) == IF positionOf(positions, l.target) = <<>> THEN Num(0)
                         ELSE OrNumber(positionOf(positions, l.target)[1].y, Num(0))
           group == {i \in 1..Len(rest) : rest[i].source = link.source}
           after == {i \in group : Leq(TargetY(link), TargetY(rest[i]))
                                   /\ ~Equal(TargetY(link), TargetY(rest[i]))}
           k == IF group = {} THEN Len(rest)
                ELSE IF after = {} THEN CHOOSE i \in group : \A j \in group : j <= i
                ELSE (CHOOSE i \in after : \A j \in after : i <= j) - 1
       IN  SubSeq(rest, 1, k) \o <<link>> \o SubSeq(rest, k + 1, Len(rest))

\* sortedLinks.map(link => ...).filter(Boolean), with the running
\* nodeOutgoingY / nodeIncomingY maps
RECURSIVE tracePaths(_, _, _, _, _, _)
tracePaths(sorted, positions, nodes, links, nodeOutgoingY, nodeIncomingY) ==
  IF sorted = <<>> THEN <<>>
  ELSE LET link == Head(sorted)
           sourceNode == positionOf(positions, link.source)
           targetNode == positionOf(positions, link.target)
       IN  IF sourceNode = <<>> \/ targetNode = <<>>
           THEN tracePaths(Tail(sorted), positions, nodes, links,
                           nodeOutgoingY, nodeIncomingY)
           ELSE
             LET sourceNodeValue == updatedNodeValues(nodes, links, link.source)
                 targetNodeValue == updatedNodeValues(nodes, links, link.target)
                 sourceLinkHeight ==
                   IF sourceNodeValue > 0
                   THEN Times(Quotient(link.value, sourceNodeValue),
                              sourceNode[1].height)
                   ELSE Num(2)
                 targetLinkHeight ==
                   IF targetNodeValue > 0
                   THEN Times(Quotient(link.value, targetNodeValue),
                              targetNode[1].height)
                   ELSE Num(2)
                 sourceY == OrNumber(nodeOutgoingY[link.source], sourceNode[1].y)
                 targetY == OrNumber(nodeIncomingY[link.target], targetNode[1].y)
             IN  <<[source |-> link.source, target |-> link.target,
                    value |-> link.value,
                    sourceY |-> sourceY, sourceLinkHeight |-> sourceLinkHeight,
                    targetY |-> targetY, targetLinkHeight |-> targetLinkHeight]>>
                 \o tracePaths(Tail(sorted), positions, nodes, links,
                      [nodeOutgoingY EXCEPT ![link.source] =
                         Plus(sourceY, sourceLinkHeight)],
                      [nodeIncomingY EXCEPT ![link.target] =
                         Plus(targetY, targetLinkHeight)])

linkPaths(nodes, links) ==
  LET positions == layout(nodes, links)
      nodeY == [id \in {positions[i].id : i \in 1..Len(positions)} |->
                  positionOf(positions, id)[1].y]
  IN  tracePaths(sortedLinks(positions, modifiedLinks(nodes, links)),
                 positions, nodes, links, nodeY, nodeY)

(***************************************************************************)
(* Sankey specification: the dashboard renders a transaction list          *)
(***************************************************************************)
SankeyInit ==
  /\ skTransactions = <<>>
  /\ skData = monthlySankeyData(<<>>)
  /\ skModified = modifiedLinks(skData.nodes, skData.links)

\* setTransactions(data.transactions) followed by the memoised recomputation
RenderMonthly ==
  \E list \in TransactionLists :
    /\ skTransactions' = list
    /\ skData' = monthlySankeyData(list)
    /\ skModified' = modifiedLinks(skData'.nodes, skData'.links)
    /\ UNCHANGED notSankey

SankeyNext == RenderMonthly

\* what the chart draws for the rendered data
skLayout ==
  [nodes |-> layout(skData.nodes, skData.links),
   links |-> linkPaths(skData.nodes, skData.links)]

(***************************************************************************)
(* Dashboard (App.tsx): monthly view, fetches and mutations                *)
(***************************************************************************)
MaxUserRequests == 2   \* user actions that start a network call, per run
MaxMutations == 2      \* mutations the backend applies, per month

\* the month picker's window
Months == {<<2024, 12>>, <<2025, 1>>, <<2025, 2>>}
InitialMonth == <<2025, 1>>     \* `${now.getFullYear()}-${now.getMonth() + 1}`
\* 'yearly' stands for every view other than the monthly one
ViewModes == {"monthly", "yearly"}

NoMessage == "none"
EmptyList == [month |-> <<0, 0>>, ver |-> 0]   \* useState<Transaction[]>([])
NoRefetch == [done |-> "none"]

\* new Date(y, m - 1 + direction, 1): month arithmetic with year roll-over
MonthAdd(ym, direction) ==
  LET k == ym[1] * 12 + (ym[2] - 1) + direction
  IN  <<k \div 12, (k % 12) + 1>>

UserBudget == nextId <= MaxUserRequests

\* a request as the API client sends it; `closure` is the render whose
\* loadData the awaiting handler captured
Request(kind, target, closure) ==
  [id |-> nextId, kind |-> kind, target |-> target, closure |-> closure,
   status |-> "sent", ver |-> 0]

\* loadData as captured by the render `cl`, run to its first await; `base`
\* is the set of the other calls still in flight
loadData(cl, base) ==
  IF cl.viewMode # "monthly"
  THEN /\ requests' = base
       /\ UNCHANGED <<loading, error, nextId>>
  ELSE /\ loading' = TRUE
       /\ error' = NoMessage
       /\ requests' = base \cup {Request("fetch", cl.month, cl)}
       /\ nextId' = nextId + 1

ThisRender == [month |-> month, viewMode |-> viewMode]
NoModal == ~isModalOpen /\ ~isBulkModalOpen

\* setMonth(m), then the effect on the new loadData
SetMonth(m) ==
  /\ month' = m
  /\ loadData([month |-> m, viewMode |-> viewMode], requests)
  /\ refetch' = NoRefetch
  /\ UNCHANGED <<viewMode, transactions, alerted, isModalOpen, isBulkModalOpen,
                 isSubmitting, modalError, dbVersion, isImporting, bulkError, notDash>>

navigateMonth ==
  \E direction \in {0 - 1, 1} :
    /\ viewMode = "monthly" /\ NoModal /\ UserBudget
    /\ MonthAdd(month, direction) \in Months
    /\ SetMonth(MonthAdd(month, direction))

handleMonthChange ==
  \E m \in Months :
    /\ viewMode = "monthly" /\ NoModal /\ UserBudget
    /\ m # month
    /\ SetMonth(m)

\* sidebar buttons: setViewMode(v), then the effect on the new loadData
setViewMode ==
  \E v \in ViewModes :
    /\ NoModal /\ UserBudget
    /\ v # viewMode
    /\ viewMode' = v
    /\ loadData([month |-> month, viewMode |-> v], requests)
    /\ refetch' = NoRefetch
    /\ UNCHANGED <<month, transactions, alerted, isModalOpen, isBulkModalOpen,
                   isSubmitting, modalError, dbVersion, isImporting, bulkError, notDash>>

\* the table (and its row buttons) is rendered only when not loading
RowsVisible == viewMode = "monthly" /\ ~loading /\ transactions # EmptyList

\* handleDelete up to `await deleteTransaction(id)`
handleDelete ==
  \E confirmed \in BOOLEAN :
    /\ RowsVisible /\ NoModal /\ UserBudget
    /\ IF confirmed
       THEN /\ requests' = requests \cup
                 {Request("delete", transactions.month, ThisRender)}
            /\ nextId' = nextId + 1
       ELSE UNCHANGED <<requests, nextId>>
    /\ refetch' = NoRefetch
    /\ UNCHANGED <<month, viewMode, transactions, loading, error, alerted,
                   isModalOpen, isBulkModalOpen, isSubmitting, modalError, dbVersion, isImporting, bulkError, notDash>>

\* openAddModal (header button) or handleEdit (row button)
openModal ==
  /\ viewMode = "monthly" /\ NoModal
  /\ isModalOpen' = TRUE
  /\ modalError' = NoMessage
  /\ refetch' = NoRefetch
  /\ UNCHANGED <<month, viewMode, transactions, loading, error, alerted,
                 isBulkModalOpen, isSubmitting, requests, nextId, dbVersion, isImporting, bulkError, notDash>>

\* opening runs the modal's loadData, which clears its banner
openBulkModal ==
  /\ viewMode = "monthly" /\ NoModal
  /\ isBulkModalOpen' = TRUE
  /\ bulkError' = NoMessage
  /\ refetch' = NoRefetch
  /\ UNCHANGED <<month, viewMode, transactions, loading, error, alerted,
                 isModalOpen, isSubmitting, modalError, requests, nextId,
                 dbVersion, isImporting, notDash>>

\* the close button of either modal: onClose()
closeModal ==
  /\ ~NoModal
  /\ isModalOpen' = FALSE
  /\ isBulkModalOpen' = FALSE
  /\ refetch' = NoRefetch
  /\ UNCHANGED <<month, viewMode, transactions, loading, error, alerted,
                 isSubmitting, modalError, requests, nextId, dbVersion, isImporting, bulkError, notDash>>

\* AddTransactionModal.handleSubmit up to its await (a valid form): the
\* saved transaction may be dated in any month
handleSubmit ==
  \E m \in Months :
    /\ isModalOpen /\ ~isSubmitting /\ UserBudget
    /\ isSubmitting' = TRUE
    /\ modalError' = NoMessage
    /\ requests' = requests \cup {Request("save", m, ThisRender)}
    /\ nextId' = nextId + 1
    /\ refetch' = NoRefetch
    /\ UNCHANGED <<month, viewMode, transactions, loading, error, alerted,
                   isModalOpen, isBulkModalOpen, dbVersion, isImporting, bulkError, notDash>>

\* BulkImportModal.handleImport up to its await (a non-empty selection)
handleImport ==
  /\ isBulkModalOpen /\ ~isImporting /\ UserBudget
  /\ isImporting' = TRUE
  /\ bulkError' = NoMessage
  /\ requests' = requests \cup {Request("bulk", month, ThisRender)}
  /\ nextId' = nextId + 1
  /\ refetch' = NoRefetch
  /\ UNCHANGED <<month, viewMode, transactions, loading, error, alerted,
                 isModalOpen, isBulkModalOpen, isSubmitting, modalError,
                 dbVersion, notDash>>

\* the backend answers a request: a fetch reads the month as it is now, a
\* mutation is applied; either may fail instead
backendAnswers ==
  \E r \in requests, ok \in BOOLEAN :
    /\ r.status = "sent"
    /\ ok /\ r.kind # "fetch" => dbVersion[r.target] < MaxMutations
    /\ requests' = (requests \ {r}) \cup
         {[r EXCEPT !.status = IF ok THEN "ok" ELSE "failed",
                    !.ver = IF r.kind = "fetch" THEN dbVersion[r.target] ELSE 0]}
    /\ dbVersion' = IF ok /\ r.kind # "fetch"
                    THEN [dbVersion EXCEPT ![r.target] = @ + 1]
                    ELSE dbVersion
    /\ refetch' = NoRefetch
    /\ UNCHANGED <<month, viewMode, transactions, loading, error, alerted,
                   isModalOpen, isBulkModalOpen, isSubmitting, modalError, nextId, isImporting, bulkError, notDash>>

Answered(kind) == {r \in requests : r.kind = kind /\ r.status # "sent"}

\* loadData after `await fetchTransactions(month)`: try / catch / finally
fetchSettles ==
  \E r \in Answered("fetch") :
    /\ IF r.status = "ok"
       THEN /\ transactions' = [month |-> r.target, ver |-> r.ver]
            /\ UNCHANGED error
       ELSE /\ error' = "Failed to fetch transactions"
            /\ UNCHANGED transactions
    /\ loading' = FALSE
    /\ requests' = requests \ {r}
    /\ refetch' = NoRefetch
    /\ UNCHANGED <<month, viewMode, alerted, isModalOpen, isBulkModalOpen,
                   isSubmitting, modalError, nextId, dbVersion, isImporting, bulkError, notDash>>

Completed(r) ==
  [done |-> r.kind, fetched |-> IF r.closure.viewMode = "monthly"
                                 THEN r.closure.month ELSE <<0, 0>>,
   before |-> transactions]

\* a handler that answers a failed DELETE by sending it again
deleteSettlesRetrying ==
  \E r \in Answered("delete") :
    /\ IF r.status = "ok"
       THEN /\ loadData(r.closure, requests \ {r})
            /\ refetch' = Completed(r)
            /\ UNCHANGED alerted
       ELSE /\ alerted' = "Failed to delete"
            /\ requests' = (requests \ {r}) \cup {Request("delete", r.target, r.closure)}
            /\ nextId' = nextId + 1
            /\ refetch' = NoRefetch
            /\ UNCHANGED <<loading, error>>
    /\ UNCHANGED <<month, viewMode, transactions, isModalOpen, isBulkModalOpen,
                   isSubmitting, modalError, dbVersion, isImporting, bulkError, notDash>>

\* handleDelete after `await deleteTransaction(id)`
deleteSettles ==
  \E r \in Answered("delete") :
    /\ IF r.status = "ok"
       THEN /\ loadData(r.closure, requests \ {r})
            /\ refetch' = Completed(r)
            /\ UNCHANGED alerted
       ELSE /\ alerted' = "Failed to delete"
            /\ requests' = requests \ {r}
            /\ refetch' = NoRefetch
            /\ UNCHANGED <<loading, error, nextId>>
    /\ UNCHANGED <<month, viewMode, transactions, isModalOpen, isBulkModalOpen,
                   isSubmitting, modalError, dbVersion, isImporting, bulkError, notDash>>

\* AddTransactionModal.handleSubmit after its await: onSuccess()
\* (handleTransactionSaved of the render that was current at submit) and
\* onClose(); or setError; finally setIsSubmitting(false)
saveSettles ==
  \E r \in Answered("save") :
    /\ IF r.status = "ok"
       THEN /\ loadData(r.closure, requests \ {r})
            /\ refetch' = Completed(r)
            /\ isModalOpen' = FALSE
            /\ UNCHANGED modalError
       ELSE /\ modalError' = "Failed to save transaction"
            /\ requests' = requests \ {r}
            /\ refetch' = NoRefetch
            /\ UNCHANGED <<loading, error, nextId, isModalOpen>>
    /\ isSubmitting' = FALSE
    /\ UNCHANGED <<month, viewMode, transactions, alerted, isBulkModalOpen,
                   isImporting, bulkError, dbVersion, notDash>>

\* BulkImportModal.handleImport after its await
importSettles ==
  \E r \in Answered("bulk") :
    /\ IF r.status = "ok"
       THEN /\ loadData(r.closure, requests \ {r})
            /\ refetch' = Completed(r)
            /\ isBulkModalOpen' = FALSE
            /\ UNCHANGED bulkError
       ELSE /\ bulkError' = "Failed to import transactions"
            /\ requests' = requests \ {r}
            /\ refetch' = NoRefetch
            /\ UNCHANGED <<loading, error, nextId, isBulkModalOpen>>
    /\ isImporting' = FALSE
    /\ UNCHANGED <<month, viewMode, transactions, alerted, isModalOpen,
                   isSubmitting, modalError, dbVersion, notDash>>

\* the Dashboard after its first render and effect: loadData() is in flight
DashInit ==
  /\ month = InitialMonth
  /\ viewMode = "monthly"
  /\ transactions = EmptyList
  /\ loading = TRUE
  /\ error = NoMessage
  /\ alerted = NoMessage
  /\ isModalOpen = FALSE
  /\ isBulkModalOpen = FALSE
  /\ isSubmitting = FALSE
  /\ modalError = NoMessage
  /\ isImporting = FALSE
  /\ bulkError = NoMessage
  /\ requests = {[id |-> 0, kind |-> "fetch", target |-> InitialMonth,
                  closure |-> [month |-> InitialMonth, viewMode |-> "monthly"],
                  status |-> "sent", ver |-> 0]}
  /\ nextId = 1
  /\ dbVersion = [m \in Months |-> 0]
  /\ refetch = NoRefetch

DashNext ==
  \/ navigateMonth
  \/ handleMonthChange
  \/ setViewMode
  \/ handleDelete
  \/ openModal
  \/ openBulkModal
  \/ closeModal
  \/ handleSubmit
  \/ handleImport
  \/ backendAnswers
  \/ fetchSettles
  \/ deleteSettles
  \/ saveSettles
  \/ importSettles

(***************************************************************************)
(* AddTransactionModal.  Amounts are in thousandths of a dollar, exchange  *)
(* rates in hundredths; a text field holding a number is <<n>>, an empty   *)
(* one <<>>.                                                               *)
(***************************************************************************)
MaxFormCalls == 2     \* calls the form may have in flight at once

\* what the user may type into the amount field (any sign)
AmountInputs == {<<>>, <<0 - 1500>>}
\* rates typed by hand or returned by the exchange-rate service (AUD per unit)
RateInputs == {<<>>, <<0 - 50>>}
ServiceRates == {65}
Currencies == {"AUD", "USD"}
TextInputs == {"", "A"}
\* stored transactions that can be opened for editing
StoredAmounts == {0 - 2500, 1234}
NoEdit == <<>>

RateOne == <<100>>    \* '1.0'

FormInitial ==
  [isOpen |-> FALSE, transactionToEdit |-> NoEdit,
   date |-> "A", name |-> "", amount |-> <<>>, type |-> "expense",
   categoryName |-> "", currency |-> "AUD", fxRate |-> RateOne,
   isLoadingFx |-> FALSE, isLoadingCategories |-> FALSE,
   isSubmitting |-> FALSE, error |-> NoMessage]

FormCall(kind, arg) == [kind |-> kind, arg |-> arg]
FormBudget == Cardinality(formCalls) < MaxFormCalls

\* updateRate up to its await, for the currency of the render that ran the
\* effect: AUD resets the rate, anything else starts a lookup
updateRate(f, ccy) ==
  IF ccy = "AUD"
  THEN /\ form' = [f EXCEPT !.fxRate = RateOne]
       /\ UNCHANGED formCalls
  ELSE /\ form' = [f EXCEPT !.isLoadingFx = TRUE]
       /\ formCalls' = formCalls \cup {FormCall("rate", ccy)}

\* the field values the populate effect sets (edit mode or add mode)
Populated(f, edit) ==
  IF edit # NoEdit
  THEN [f EXCEPT !.date = "A", !.name = "A", !.currency = "AUD",
                 !.fxRate = RateOne,
                 !.type = IF edit[1] < 0 THEN "income" ELSE "expense",
                 !.amount = IF edit[1] < 0 THEN <<Abs(edit[1])>> ELSE <<edit[1]>>,
                 !.categoryName = "A"]
  ELSE [f EXCEPT !.date = "A", !.name = "", !.amount = <<>>,
                 !.type = "expense", !.currency = "AUD", !.fxRate = RateOne,
                 !.error = NoMessage]

\* the parent opens the modal (openAddModal / handleEdit): both effects run
\* in the render that still holds the previous session's currency
formOpen ==
  \E edit \in {NoEdit} \cup {<<a>> : a \in StoredAmounts} :
    /\ ~form.isOpen /\ FormBudget
    /\ LET f == [Populated(form, edit) EXCEPT !.isOpen = TRUE,
                                              !.transactionToEdit = edit,
                                              !.isLoadingCategories = TRUE]
           \* loadCategories closes over this render's props and state:
           \* !transactionToEdit && !categoryName
           cats == FormCall("categories",
                            edit = NoEdit /\ form.categoryName = "")
       IN  IF form.currency = "AUD"
           THEN /\ form' = f
                /\ formCalls' = formCalls \cup {cats}
           ELSE \* the stale currency's lookup starts; the re-render with AUD
                \* then resets the rate
                /\ form' = [f EXCEPT !.isLoadingFx = TRUE]
                /\ formCalls' = formCalls \cup {cats, FormCall("rate", form.currency)}
    /\ UNCHANGED notForm

formClose ==
  /\ form.isOpen
  /\ form' = [form EXCEPT !.isOpen = FALSE]
  /\ UNCHANGED <<formCalls, notForm>>

setType ==
  \E t \in {"expense", "income"} :
    /\ form.isOpen
    /\ form' = [form EXCEPT !.type = t]
    /\ UNCHANGED <<formCalls, notForm>>

setAmount ==
  \E a \in AmountInputs :
    /\ form.isOpen
    /\ form' = [form EXCEPT !.amount = a]
    /\ UNCHANGED <<formCalls, notForm>>

setTextField ==
  \E fld \in {"date", "name", "categoryName"}, v \in TextInputs :
    /\ form.isOpen
    /\ form' = [form EXCEPT ![fld] = v]
    /\ UNCHANGED <<formCalls, notForm>>

\* the currency select, then the effect on [currency, isOpen]
setCurrency ==
  \E c \in Currencies :
    /\ form.isOpen /\ c # form.currency /\ FormBudget
    /\ updateRate([form EXCEPT !.currency = c], c)
    /\ UNCHANGED notForm

\* the rate input is disabled while the currency is AUD
setFxRate ==
  \E r \in RateInputs :
    /\ form.isOpen /\ form.currency # "AUD"
    /\ form' = [form EXCEPT !.fxRate = r]
    /\ UNCHANGED <<formCalls, notForm>>

\* updateRate after `await fetchExchangeRate(currency)`: the service's rate,
\* or 1 when the lookup failed (fetchExchangeRate swallows the error)
rateSettles ==
  \E c \in formCalls, ok \in BOOLEAN, rate \in ServiceRates :
    /\ c.kind = "rate"
    /\ form' = [form EXCEPT !.fxRate = IF ok THEN <<rate>> ELSE RateOne,
                            !.isLoadingFx = FALSE]
    /\ formCalls' = formCalls \ {c}
    /\ UNCHANGED notForm

\* loadCategories after its await
categoriesSettle ==
  \E c \in formCalls, ok \in BOOLEAN, fetched \in {<<>>, <<"A", "B">>} :
    /\ c.kind = "categories"
    /\ form' = [form EXCEPT
         !.categoryName =
            IF ok /\ c.arg /\ fetched # <<>>
            THEN fetched[1] ELSE @,
         !.error = IF ok THEN @
                   ELSE "Failed to load categories. Please check your connection.",
         !.isLoadingCategories = FALSE]
    /\ formCalls' = formCalls \ {c}
    /\ UNCHANGED notForm

\* the submit control as it would be if it stayed enabled while a
\* submission is pending
SubmitEnabledWhilePending ==
  form.isOpen /\ ~form.isLoadingCategories /\ ~form.isLoadingFx

SubmitEnabled ==
  form.isOpen /\ ~form.isSubmitting /\ ~form.isLoadingCategories /\ ~form.isLoadingFx

\* Math.round(x * 100) / 100 of x = n / 100000, in cents: floor(x * 100 + 0.5)
RoundToCents(n) == (n + 500) \div 1000

\* the sign taken from the typed product instead of from the type
finalAmountKeepingSign(type, amount, fxRate) ==
  LET product == amount[1] * fxRate[1]
  IN  IF type = "income"
      THEN RoundToCents(0 - product)
      ELSE RoundToCents(product)

\* the amount handleSubmit puts in the payload, in cents
finalAmount(type, amount, fxRate) ==
  LET product == amount[1] * fxRate[1]       \* inputAmount * rate
  IN  IF type = "income"
      THEN RoundToCents(0 - Abs(product))
      ELSE RoundToCents(Abs(product))

\* a handleSubmit whose check leaves out the name field
formSubmitUnchecked ==
  /\ SubmitEnabled /\ FormBudget
  /\ IF form.categoryName = "" \/ form.amount = <<>>
        \/ form.date = "" \/ form.fxRate = <<>>
     THEN /\ form' = [form EXCEPT !.error = "All fields are required."]
          /\ UNCHANGED formCalls
     ELSE LET payload == [trx_date |-> form.date,
                          category_name |-> form.categoryName,
                          name |-> form.name,
                          amount |-> finalAmount(form.type, form.amount, form.fxRate)]
          IN  /\ form' = [form EXCEPT !.isSubmitting = TRUE, !.error = NoMessage]
              /\ formCalls' = formCalls \cup
                   {FormCall(IF form.transactionToEdit # NoEdit
                             THEN "updateTransaction" ELSE "addTransaction",
                             [payload |-> payload, type |-> form.type,
                              typed |-> form.amount[1] * form.fxRate[1]])}
  /\ UNCHANGED notForm

\* handleSubmit up to its await
formSubmit ==
  /\ SubmitEnabled /\ FormBudget
  /\ IF form.categoryName = "" \/ form.name = "" \/ form.amount = <<>>
        \/ form.date = "" \/ form.fxRate = <<>>
     THEN /\ form' = [form EXCEPT !.error = "All fields are required."]
          /\ UNCHANGED formCalls
     ELSE LET payload == [trx_date |-> form.date,
                          category_name |-> form.categoryName,
                          name |-> form.name,
                          amount |-> finalAmount(form.type, form.amount, form.fxRate)]
          IN  /\ form' = [form EXCEPT !.isSubmitting = TRUE, !.error = NoMessage]
              /\ formCalls' = formCalls \cup
                   {FormCall(IF form.transactionToEdit # NoEdit
                             THEN "updateTransaction" ELSE "addTransaction",
                             [payload |-> payload, type |-> form.type,
                              typed |-> form.amount[1] * form.fxRate[1]])}
  /\ UNCHANGED notForm

\* handleSubmit after its await: onSuccess(); onClose() or setError; finally
submitSettles ==
  \E c \in formCalls, ok \in BOOLEAN :
    /\ c.kind \in {"addTransaction", "updateTransaction"}
    /\ form' = [form EXCEPT !.isOpen = IF ok THEN FALSE ELSE @,
                            !.error = IF ok THEN @ ELSE "Failed to save transaction",
                            !.isSubmitting = FALSE]
    /\ formCalls' = formCalls \ {c}
    /\ UNCHANGED notForm

FormInit ==
  /\ form = FormInitial
  /\ formCalls = {}

FormNext ==
  \/ formOpen
  \/ formClose
  \/ setType
  \/ setAmount
  \/ setTextField
  \/ setCurrency
  \/ setFxRate
  \/ rateSettles
  \/ categoriesSettle
  \/ formSubmit
  \/ submitSettles

(***************************************************************************)
(* YearlyDashboard.  The year has two months; a transaction carries the    *)
(* month of its trx_date.                                                  *)
(***************************************************************************)
MaxYearTx == 2        \* transactions the backend holds for the year
MaxYearlyCalls == 2   \* month-filter fetches in flight at once

YearMonths == {1, 2}
YearTransactionT == [category : CategoryNames, amount : Amounts, month : YearMonths]
YearLedgers == UNION {[1..n -> YearTransactionT] : n \in 0..MaxYearTx}
NoMonth == <<>>       \* activeMonthIndex === null
NoData == <<>>        \* data === null

\* t.trx_date.startsWith(monthData.month)
InMonth(txs, mth) ==
  LET Starts(t) == t.month = mth
  IN  SelectSeq(txs, Starts)

\* the summary the backend derives from its transactions
YearlySummary(txs) ==
  [yearly_total_savings |-> calculateFinancials(txs).savings,
   monthly_breakdown |->
     [mth \in YearMonths |->
        [month |-> mth,
         total_savings |-> calculateFinancials(InMonth(txs, mth)).savings]]]

YearlyInitial ==
  [data |-> NoData, transactions |-> <<>>, loading |-> TRUE,
   error |-> NoMessage, activeMonthIndex |-> NoMonth]

\* sankeyData (useMemo)
yearlySankeyData(y) ==
  IF y.data = NoData \/ Len(y.transactions) = 0
  THEN [nodes |-> <<>>, links |-> <<>>]
  ELSE LET savingsAmount ==
             IF y.activeMonthIndex # NoMonth
             THEN y.data[1].monthly_breakdown[y.activeMonthIndex[1]].total_savings
             ELSE y.data[1].yearly_total_savings
       IN  SankeyGraph(getIncomesByCategory(y.transactions),
                       getExpensesByCategory(y.transactions),
                       savingsAmount)

\* the bar chart is rendered, so it can be hovered
ChartShown == yearly.error = NoMessage /\ ~yearly.loading /\ yearly.data # NoData

\* loadYearlyData after `await fetchYearlySummary(selectedYear)`
summarySettles ==
  \E c \in yearlyCalls, ok \in BOOLEAN :
    /\ c.kind = "summary"
    /\ IF ok
       THEN /\ yearly' = [yearly EXCEPT !.data = <<YearlySummary(ledger)>>]
            /\ yearlyCalls' = (yearlyCalls \ {c}) \cup {[kind |-> "year", month |-> 0]}
       ELSE /\ yearly' = [yearly EXCEPT !.error = "Failed to fetch yearly summary",
                                        !.loading = FALSE]
            /\ yearlyCalls' = yearlyCalls \ {c}
    /\ yearlyFailed' = ~ok
    /\ UNCHANGED <<ledger, notYearly>>

\* loadYearlyData after `await fetchAllTransactions()`
yearSettles ==
  \E c \in yearlyCalls, ok \in BOOLEAN :
    /\ c.kind = "year"
    /\ yearly' = [yearly EXCEPT
         !.transactions = IF ok THEN ledger ELSE @,
         !.error = IF ok THEN @ ELSE "Failed to fetch transactions",
         !.loading = FALSE]
    /\ yearlyCalls' = yearlyCalls \ {c}
    /\ yearlyFailed' = ~ok
    /\ UNCHANGED <<ledger, notYearly>>

\* onMouseMove over a bar, then the effect on [activeMonthIndex, data]
onMouseMove ==
  \E i \in YearMonths :
    /\ ChartShown /\ yearly.activeMonthIndex # <<i>>
    /\ Cardinality(yearlyCalls) < MaxYearlyCalls
    /\ yearly' = [yearly EXCEPT !.activeMonthIndex = <<i>>]
    /\ yearlyCalls' = yearlyCalls \cup
         {[kind |-> "month", month |-> yearly.data[1].monthly_breakdown[i].month]}
    /\ yearlyFailed' = FALSE
    /\ UNCHANGED <<ledger, notYearly>>

\* onMouseLeave: the effect returns early, nothing is fetched
onMouseLeave ==
  /\ ChartShown /\ yearly.activeMonthIndex # NoMonth
  /\ yearly' = [yearly EXCEPT !.activeMonthIndex = NoMonth]
  /\ yearlyFailed' = FALSE
  /\ UNCHANGED <<yearlyCalls, ledger, notYearly>>

\* filterMonthTransactions after `await fetchAllTransactions()`; a failure is
\* logged to the console only
monthSettles ==
  \E c \in yearlyCalls, ok \in BOOLEAN :
    /\ c.kind = "month"
    /\ yearly' = [yearly EXCEPT
         !.transactions = IF ok THEN InMonth(ledger, c.month) ELSE @]
    /\ yearlyCalls' = yearlyCalls \ {c}
    /\ yearlyFailed' = ~ok
    /\ UNCHANGED <<ledger, notYearly>>

\* the view is not mounted yet
YearlyInit ==
  /\ ledger = <<>>
  /\ yearly = YearlyInitial
  /\ yearlyCalls = {}
  /\ yearlyFailed = FALSE

\* the user switches to the yearly view: the component mounts with its
\* initial state and loadYearlyData runs up to its first await; the backend
\* holds some transactions for the selected year
mountYearly ==
  \E held \in YearLedgers :
    /\ yearly = YearlyInitial /\ yearlyCalls = {}
    /\ ledger' = held
    /\ yearly' = [yearly EXCEPT !.loading = TRUE, !.error = NoMessage,
                                !.activeMonthIndex = NoMonth]
    /\ yearlyCalls' = {[kind |-> "summary", month |-> 0]}
    /\ yearlyFailed' = FALSE
    /\ UNCHANGED notYearly

\* <SankeyChart nodes={sankeyData.nodes} links={sankeyData.links} />: the node
\* positions the yearly view draws
yearlyPositions ==
  LET sankeyData == yearlySankeyData(yearly)
  IN  layout(sankeyData.nodes, sankeyData.links)

YearlyNext ==
  \/ mountYearly
  \/ summarySettles
  \/ yearSettles
  \/ onMouseMove
  \/ onMouseLeave
  \/ monthSettles

(***************************************************************************)
(* services/api.ts: the request credential.  Text is a sequence of bytes   *)
(* (what TextEncoder.encode returns); encoded text is a sequence of        *)
(* one-character strings.                                                  *)
(***************************************************************************)
MaxSignature == 2     \* bytes of the signatures tried (HMAC-SHA-256 gives 32)

Base64Alphabet == <<
    "A", "B", "C", "D", "E", "F", "G", "H", "I", "J", "K", "L", "M", "N", "O", "P",
    "Q", "R", "S", "T", "U", "V", "W", "X", "Y", "Z", "a", "b", "c", "d", "e", "f",
    "g", "h", "i", "j", "k", "l", "m", "n", "o", "p", "q", "r", "s", "t", "u", "v",
    "w", "x", "y", "z", "0", "1", "2", "3", "4", "5", "6", "7", "8", "9", "+", "/">>

\* btoa over a byte sequence: three bytes become four characters, the last
\* group is padded with '='
RECURSIVE btoa(_)
btoa(bytes) ==
  LET ch(n) == Base64Alphabet[n + 1]
  IN  IF Len(bytes) = 0 THEN <<>>
      ELSE IF Len(bytes) = 1
      THEN <<ch(bytes[1] \div 4), ch((bytes[1] % 4) * 16), "=", "=">>
      ELSE IF Len(bytes) = 2
      THEN <<ch(bytes[1] \div 4),
             ch((bytes[1] % 4) * 16 + bytes[2] \div 16),
             ch((bytes[2] % 16) * 4), "=">>
      ELSE <<ch(bytes[1] \div 4),
             ch((bytes[1] % 4) * 16 + bytes[2] \div 16),
             ch((bytes[2] % 16) * 4 + bytes[3] \div 64),
             ch(bytes[3] % 64)>> \o btoa(SubSeq(bytes, 4, Len(bytes)))

\* the bytes written out as Latin-1 characters, without any encoding
latin1(bytes) ==
  [i \in 1..Len(bytes) |-> IF bytes[i] = 46 THEN "." ELSE "x"]

\* base64.replace(/=/g, '').replace(/\+/g, '-').replace(/\//g, '_')
base64UrlEncode(bytes) ==
  LET NotPad(c) == c # "="
      unpadded == SelectSeq(btoa(bytes), NotPad)
  IN  [i \in 1..Len(unpadded) |->
         IF unpadded[i] = "+" THEN "-"
         ELSE IF unpadded[i] = "/" THEN "_"
         ELSE unpadded[i]]

\* JSON.stringify({ alg: "HS256", typ: "JWT" })
HeaderJson == 
  <<123, 34, 97, 108, 103, 34, 58, 34, 72, 83, 50, 53, 54, 34, 44, 34, 116, 121, 112, 34, 58, 34, 74, 87, 84, 34, 125>>
\* the API key of the build and the expiry time, as JSON text
ApiKeyJson == <<107, 46, 49>>
ExpJson == {<<56, 54, 51, 57, 57>>}
\* JSON.stringify({ email, apikey, exp })
PayloadJson(email, exp) ==
  <<123, 34, 101, 109, 97, 105, 108, 34, 58, 34>> \o email \o <<34, 44, 34, 97, 112, 105, 107, 101, 121, 34, 58, 34>> \o ApiKeyJson \o <<34, 44, 34, 101, 120, 112, 34, 58>> \o exp \o <<125>>

\* A JavaScript value read from the environment: <<>> is undefined, <<t>> the
\* string t.  `a || b`:
Or(a, b) == IF a # <<>> /\ a # <<"">> THEN a ELSE b

Unset ==
  [VITE_API_BASE_URL |-> <<>>, REACT_APP_API_BASE_URL |-> <<>>,
   VITE_SUPABASE_KEY |-> <<>>, REACT_APP_SUPABASE_KEY |-> <<>>,
   VITE_JWT_SECRET |-> <<>>, REACT_APP_JWT_SECRET |-> <<>>]
\* an env object: missing (<<>>), present with nothing set, or with the
\* variables of one naming convention set
EnvObjects ==
  {<<>>, <<Unset>>,
   <<[Unset EXCEPT !.VITE_API_BASE_URL = <<"https://v.example">>,
                   !.VITE_SUPABASE_KEY = <<"vite-key">>,
                   !.VITE_JWT_SECRET = <<"vite-secret">>]>>,
   <<[Unset EXCEPT !.REACT_APP_API_BASE_URL = <<"https://r.example">>,
                   !.REACT_APP_SUPABASE_KEY = <<"react-key">>]>>}

\* the two try blocks at module load, for one setting: import.meta.env first,
\* then process.env if the value is still empty
setting(vite, reactApp) ==
  LET fromMeta ==
        IF environment.meta = <<>> THEN <<"">>
        ELSE Or(environment.meta[1][vite], environment.meta[1][reactApp])
  IN  IF environment.process # <<>> /\ Or(fromMeta, <<>>) = <<>>
      THEN Or(Or(environment.process[1][reactApp],
                 environment.process[1][vite]), <<"">>)
      ELSE fromMeta

BASE_URL == setting("VITE_API_BASE_URL", "REACT_APP_API_BASE_URL")
API_KEY == setting("VITE_SUPABASE_KEY", "REACT_APP_SUPABASE_KEY")
JWT_SECRET ==
  Or(setting("VITE_JWT_SECRET", "REACT_APP_JWT_SECRET"), <<"my-secret-key">>)

\* `${BASE_URL}/path`: undefined is written out as 'undefined'
urlOf(fn) == (IF BASE_URL = <<>> THEN "undefined" ELSE BASE_URL[1]) \o "/" \o fn

Emails == {<<97, 46, 98, 64, 99, 46, 100>>, <<195, 190, 63, 64, 120>>}
NoEmail == <<>>
SignatureBytes == {251, 255}
Signatures == [1..MaxSignature -> SignatureBytes]

generateJWT(email, exp, signature) ==
  LET encodedHeader == base64UrlEncode(HeaderJson)
      encodedPayload == base64UrlEncode(PayloadJson(email, exp))
      tokenData == encodedHeader \o <<".">> \o encodedPayload
      encodedSignature == base64UrlEncode(signature)
  IN  tokenData \o <<".">> \o encodedSignature

\* a getHeaders that never looks at localStorage
getHeadersOverrideOnly(emailOverride, exp, signature) ==
  [ContentType |-> "application/json",
   Authorization |-> <<"B", "e", "a", "r", "e", "r", " ">>
                       \o generateJWT(emailOverride, exp, signature),
   email |-> emailOverride]

\* getHeaders: the override if given, else the stored user's email, else ''
getHeaders(emailOverride, exp, signature) ==
  LET email == IF emailOverride # NoEmail THEN emailOverride
               ELSE IF localStorageUser # <<>> THEN localStorageUser[1]
               ELSE NoEmail
  IN  [ContentType |-> "application/json",
       Authorization |-> <<"B", "e", "a", "r", "e", "r", " ">>
                           \o generateJWT(email, exp, signature),
       email |-> email]

\* the functions that call getHeaders() and those that call getHeaders(email)
SessionCalls ==
  {"fetchTransactions", "fetchCategories", "fetchRegularTransactions",
   "fetchYearlySummary", "addTransaction", "addBulkTransactions",
   "updateTransaction", "deleteTransaction", "addRegularTransaction",
   "updateRegularTransaction", "deleteRegularTransaction",
   "addCategory", "updateCategory", "deleteCategory"}
PreLoginCalls ==
  {"checkUserEmail", "getPasskeyOptions", "verifyPasskeyLogin",
   "getRegistrationOptions", "verifyPasskeyRegistration"}
NoHeaders == [ContentType |-> "", Authorization |-> <<>>, email |-> NoEmail]

handleLogin ==
  \E email \in Emails :
    /\ user = <<>>
    /\ user' = <<email>>
    /\ localStorageUser' = <<email>>
    /\ UNCHANGED <<environment, request, notApi>>

\* a logout that clears App's state and leaves the stored entry
handleLogoutStateOnly ==
  /\ user # <<>>
  /\ user' = <<>>
  /\ UNCHANGED <<localStorageUser, environment, request, notApi>>

handleLogout ==
  /\ user # <<>>
  /\ user' = <<>>
  /\ localStorageUser' = <<>>
  /\ UNCHANGED <<environment, request, notApi>>

\* any of the calls made on behalf of the logged-in user
sessionCall ==
  \E fn \in SessionCalls, exp \in ExpJson, signature \in Signatures :
    /\ request' = <<[fn |-> fn, backend |-> TRUE, url |-> urlOf(fn),
                     api_key |-> API_KEY, secret |-> JWT_SECRET,
                     emailOverride |-> NoEmail,
                     headers |-> getHeaders(NoEmail, exp, signature)]>>
    /\ UNCHANGED <<user, localStorageUser, environment, notApi>>

\* the login page's calls, made with the email typed into it
preLoginCall ==
  \E fn \in PreLoginCalls, email \in Emails \cup {NoEmail},
     exp \in ExpJson, signature \in Signatures :
    /\ user = <<>>
    /\ request' = <<[fn |-> fn, backend |-> TRUE, url |-> urlOf(fn),
                     api_key |-> API_KEY, secret |-> JWT_SECRET,
                     emailOverride |-> email,
                     headers |-> getHeaders(email, exp, signature)]>>
    /\ UNCHANGED <<user, localStorageUser, environment, notApi>>

\* the request to open.er-api.com, sent without headers
fetchExchangeRate ==
  /\ request' = <<[fn |-> "fetchExchangeRate", backend |-> FALSE,
                   url |-> "https://open.er-api.com/v6/latest/USD",
                   api_key |-> <<>>, secret |-> <<>>,
                   emailOverride |-> NoEmail,
                   headers |-> NoHeaders]>>
  /\ UNCHANGED <<user, localStorageUser, environment, notApi>>

\* the page is loaded from a build with some environment: the module
\* constants are computed, App takes the user from localStorage
pageLoad ==
  \E meta \in EnvObjects, process \in EnvObjects :
    /\ environment' = [meta |-> meta, process |-> process]
    /\ user' = localStorageUser
    /\ request' = <<>>
    /\ UNCHANGED <<localStorageUser, notApi>>

\* the tab is reloaded on the same build: App's useState initializer reads
\* the 'user' entry again
appMount ==
  /\ user' = localStorageUser
  /\ request' = <<>>
  /\ UNCHANGED <<localStorageUser, environment, notApi>>

ApiInit ==
  /\ user = <<>>
  /\ localStorageUser = <<>>
  /\ environment = [meta |-> <<>>, process |-> <<>>]
  /\ request = <<>>

ApiNext ==
  \/ handleLogin
  \/ handleLogout
  \/ sessionCall
  \/ preLoginCall
  \/ fetchExchangeRate
  \/ appMount

\* the client under the environments a build can give it
ConfigNext ==
  \/ pageLoad
  \/ sessionCall
  \/ fetchExchangeRate

\* the number of '.' characters in a text
DotCount(text) ==
  LET IsDot(c) == c = "."
  IN  Len(SelectSeq(text, IsDot))

(***************************************************************************)
(* BulkImportModal.  Amounts and rates in the units of the transaction     *)
(* form.                                                                   *)
(***************************************************************************)
MaxTemplates == 2     \* templates the backend returns at once
MaxBulkCalls == 2     \* calls the modal may have in flight at once

\* the RegularTransaction templates the backend may hold; two share a category
Templates ==
  {[id |-> "r1", category |-> "A", amount |-> 1234, ccy |-> "AUD"],
   [id |-> "r2", category |-> "B", amount |-> 2000, ccy |-> "USD"],
   [id |-> "r3", category |-> "A", amount |-> 5, ccy |-> "AUD"]}
TemplateIds == {t.id : t \in Templates}
TemplateLists ==
  {l \in UNION {[1..n -> Templates] : n \in 0..MaxTemplates} :
     \A i, j \in 1..Len(l) : i # j => l[i].id # l[j].id}
\* the months the dashboard may be showing when it opens the modal
TargetMonths == {InitialMonth, MonthAdd(InitialMonth, 1)}

BulkInitial ==
  [isOpen |-> FALSE, targetMonth |-> InitialMonth,
   transactions |-> <<>>, selectedIds |-> {},
   editedAmounts |-> [id \in TemplateIds |-> <<>>],
   rates |-> <<>>,
   isLoading |-> FALSE, isSubmitting |-> FALSE, error |-> NoMessage]

BulkBudget == Cardinality(bulkCalls) < MaxBulkCalls

\* the parent opens the modal for its month; loadData runs up to its await
bulkOpen ==
  \E m \in TargetMonths :
    /\ ~bulk.isOpen /\ BulkBudget
    /\ bulk' = [bulk EXCEPT !.isOpen = TRUE, !.targetMonth = m,
                            !.isLoading = TRUE, !.error = NoMessage]
    /\ bulkCalls' = bulkCalls \cup {[kind |-> "fetchRegularTransactions", arg |-> <<>>]}
    /\ UNCHANGED notBulk

bulkClose ==
  /\ bulk.isOpen
  /\ bulk' = [bulk EXCEPT !.isOpen = FALSE]
  /\ UNCHANGED <<bulkCalls, notBulk>>

\* loadData after `await fetchRegularTransactions()`: the templates, all of
\* them selected, their amounts; then the rate lookups start
bulkLoadSettles ==
  \E c \in bulkCalls, ok \in BOOLEAN, regs \in TemplateLists :
    /\ c.kind = "fetchRegularTransactions"
    /\ IF ok
       THEN LET foreign == \E i \in 1..Len(regs) : regs[i].ccy # "AUD"
            IN  /\ bulk' = [bulk EXCEPT
                     !.transactions = regs,
                     !.selectedIds = {regs[i].id : i \in 1..Len(regs)},
                     !.editedAmounts =
                        [id \in TemplateIds |->
                           IF \E i \in 1..Len(regs) : regs[i].id = id
                           THEN <<(CHOOSE t \in Templates : t.id = id).amount>>
                           ELSE <<>>],
                     !.rates = IF foreign THEN @ ELSE <<>>,
                     !.isLoading = IF foreign THEN @ ELSE FALSE]
                /\ bulkCalls' = (bulkCalls \ {c}) \cup
                     (IF foreign THEN {[kind |-> "fetchExchangeRate", arg |-> <<>>]}
                      ELSE {})
       ELSE /\ bulk' = [bulk EXCEPT
                 !.error = "Failed to load templates. Please check your connection.",
                 !.isLoading = FALSE]
            /\ bulkCalls' = bulkCalls \ {c}
    /\ UNCHANGED notBulk

\* loadData after `await Promise.all(...)`: fetchExchangeRate gives the rate,
\* or 1 when the lookup failed
bulkRatesSettle ==
  \E c \in bulkCalls, rate \in ServiceRates \cup {RateOne[1]} :
    /\ c.kind = "fetchExchangeRate"
    /\ bulk' = [bulk EXCEPT !.rates = <<rate>>, !.isLoading = FALSE]
    /\ bulkCalls' = bulkCalls \ {c}
    /\ UNCHANGED notBulk

RowsShown == bulk.isOpen /\ ~bulk.isLoading

toggleSelection ==
  \E i \in 1..Len(bulk.transactions) :
    /\ RowsShown
    /\ bulk' = [bulk EXCEPT !.selectedIds =
                  IF bulk.transactions[i].id \in @
                  THEN @ \ {bulk.transactions[i].id}
                  ELSE @ \cup {bulk.transactions[i].id}]
    /\ UNCHANGED <<bulkCalls, notBulk>>

\* the templates a payload is made from, every one of them
allTemplates(txs, selected) == txs

\* transactions.filter(t => selectedIds.has(t.id))
selectedTemplates(txs, selected) ==
  LET IsSelected(t) == t.id \in selected
  IN  SelectSeq(txs, IsSelected)

\* the payload handleImport builds
importPayload(b) ==
  LET chosen == selectedTemplates(b.transactions, b.selectedIds)
      rateOf(t) == IF t.ccy = "AUD" THEN 100
                   ELSE IF b.rates # <<>> /\ b.rates[1] # 0 THEN b.rates[1]
                   ELSE 100
      rawAmount(t) == IF b.editedAmounts[t.id] = <<>> THEN 0
                      ELSE b.editedAmounts[t.id][1]
  IN  [i \in 1..Len(chosen) |->
         [category_name |-> chosen[i].category,
          amount |-> RoundToCents(rawAmount(chosen[i]) * rateOf(chosen[i])),
          trx_date |-> [month |-> b.targetMonth, day |-> 1],
          name |-> chosen[i].id]]

ImportEnabled ==
  bulk.isOpen /\ ~bulk.isSubmitting /\ ~bulk.isLoading /\ bulk.selectedIds # {}

\* handleImport up to its await
bulkImport ==
  /\ ImportEnabled /\ BulkBudget
  /\ IF bulk.selectedIds = {}
     THEN /\ bulk' = [bulk EXCEPT
               !.error = "Please select at least one transaction to import."]
          /\ UNCHANGED bulkCalls
     ELSE /\ bulk' = [bulk EXCEPT !.isSubmitting = TRUE, !.error = NoMessage]
          /\ bulkCalls' = bulkCalls \cup
               {[kind |-> "addBulkTransactions", arg |-> importPayload(bulk)]}
  /\ UNCHANGED notBulk

\* handleImport after its await
bulkImportSettles ==
  \E c \in bulkCalls, ok \in BOOLEAN :
    /\ c.kind = "addBulkTransactions"
    /\ bulk' = [bulk EXCEPT !.isOpen = IF ok THEN FALSE ELSE @,
                            !.error = IF ok THEN @ ELSE "Failed to import transactions.",
                            !.isSubmitting = FALSE]
    /\ bulkCalls' = bulkCalls \ {c}
    /\ UNCHANGED notBulk

BulkInit ==
  /\ bulk = BulkInitial
  /\ bulkCalls = {}

BulkNext ==
  \/ bulkOpen
  \/ bulkClose
  \/ bulkLoadSettles
  \/ bulkRatesSettle
  \/ toggleSelection
  \/ bulkImport
  \/ bulkImportSettles

(***************************************************************************)
(* AddCategoryModal.  A name is a sequence of one-character strings.       *)
(***************************************************************************)
MaxName == 2          \* characters of the names typed

NameCharacters == {"a", " ", "ß"}
TypedNames == UNION {[1..n -> NameCharacters] : n \in 0..MaxName}
\* the categories the backend holds, whatever their case
StoredCategories == {[id |-> "c1", name |-> <<"A">>], [id |-> "c2", name |-> <<"a", "A">>]}
NoCategory == [id |-> "", name |-> <<>>]

\* String.prototype.toUpperCase, character by character
UpperOf(c) ==
  IF c = "a" THEN <<"A">>
  ELSE IF c = "ß" THEN <<"S", "S">>
  ELSE <<c>>

RECURSIVE asTyped(_)
asTyped(name) ==
  IF name = <<>> THEN <<>> ELSE <<Head(name)>> \o asTyped(Tail(name))

RECURSIVE toUpperCase(_)
toUpperCase(name) ==
  IF name = <<>> THEN <<>> ELSE UpperOf(Head(name)) \o toUpperCase(Tail(name))

\* String.prototype.trim
RECURSIVE trimStart(_)
trimStart(name) ==
  IF name # <<>> /\ Head(name) = " " THEN trimStart(Tail(name)) ELSE name

RECURSIVE trimEnd(_)
trimEnd(name) ==
  IF name # <<>> /\ name[Len(name)] = " "
  THEN trimEnd(SubSeq(name, 1, Len(name) - 1)) ELSE name

trim(name) == trimEnd(trimStart(name))

CategoryInitial ==
  [isOpen |-> FALSE, categoryToEdit |-> NoCategory, name |-> <<>>,
   isSubmitting |-> FALSE, error |-> NoMessage]

\* the parent opens the modal to add or to rename; the effect fills the name
categoryOpen ==
  \E edit \in StoredCategories \cup {NoCategory} :
    /\ ~categoryForm.isOpen
    /\ categoryForm' = [categoryForm EXCEPT !.isOpen = TRUE,
                                            !.categoryToEdit = edit,
                                            !.name = edit.name,
                                            !.error = NoMessage]
    /\ UNCHANGED <<categoryCalls, categorySettled, managerVars, notCategory>>

categoryClose ==
  /\ categoryForm.isOpen
  /\ categoryForm' = [categoryForm EXCEPT !.isOpen = FALSE]
  /\ UNCHANGED <<categoryCalls, categorySettled, managerVars, notCategory>>

setCategoryName ==
  \E typed \in TypedNames :
    /\ categoryForm.isOpen
    /\ categoryForm' = [categoryForm EXCEPT !.name = typed]
    /\ UNCHANGED <<categoryCalls, categorySettled, managerVars, notCategory>>

(***************************************************************************)
(* CategoryManager, with the Dashboard's categoryRefreshTrigger.  Calls in *)
(* flight are counted by kind; a call of an instance that has been         *)
(* unmounted since is stale: its handler still runs, its state updates are *)
(* dropped.                                                                *)
(***************************************************************************)
MaxRefresh == 2       \* successful saves (values of the refresh trigger)
MaxManagerCalls == 2  \* calls of the manager and the modal in flight at once

NotSettled == [handler |-> "none", ok |-> FALSE, called |-> <<>>]
NoCalls == [fetch |-> 0, delete |-> 0, staleFetch |-> 0, staleDelete |-> 0]
ManagerInitial ==
  [mounted |-> FALSE, categories |-> <<>>, loading |-> TRUE, error |-> NoMessage]

ManagerBudget ==
  managerCalls.fetch + managerCalls.delete + managerCalls.staleFetch
    + managerCalls.staleDelete + Cardinality(categoryCalls) < MaxManagerCalls

\* CategoryManager.loadData of the mounted instance up to its await; `base`
\* is the other calls still in flight
managerLoadData(base) ==
  /\ categoryManager' = [categoryManager EXCEPT !.loading = TRUE,
                                                !.error = NoMessage]
  /\ managerCalls' = [base EXCEPT !.fetch = @ + 1]

\* onSuccess of the modal: the trigger changes, and the effect of a mounted
\* manager runs loadData
handleCategorySuccess ==
  /\ categoryRefreshTrigger' = categoryRefreshTrigger + 1
  /\ IF categoryManager.mounted
     THEN managerLoadData(managerCalls)
     ELSE UNCHANGED <<categoryManager, managerCalls>>

\* a save that closes the modal whatever the answer
handleSubmitClosing ==
  \E c \in categoryCalls, ok \in BOOLEAN :
    /\ categoryCalls' = categoryCalls \ {c}
    /\ categoryForm' = [categoryForm EXCEPT
         !.isOpen = FALSE,
         !.error = IF ok THEN @ ELSE "Failed to save category",
         !.isSubmitting = FALSE]
    /\ categorySettled' = [handler |-> "handleSubmit", ok |-> ok,
                           called |-> IF ok THEN <<"onSuccess", "onClose">>
                                      ELSE <<"onClose">>]
    /\ IF ok THEN handleCategorySuccess ELSE UNCHANGED managerVars
    /\ UNCHANGED notCategory

\* handleSubmit up to its await
categorySubmit ==
  /\ categoryForm.isOpen /\ ~categoryForm.isSubmitting
  /\ IF trim(categoryForm.name) = <<>>
     THEN /\ categoryForm' = [categoryForm EXCEPT !.error = "Category name is required."]
          /\ UNCHANGED categoryCalls
     ELSE /\ ManagerBudget /\ categoryRefreshTrigger < MaxRefresh
          /\ categoryForm' = [categoryForm EXCEPT !.isSubmitting = TRUE,
                                                  !.error = NoMessage]
          /\ categoryCalls' = categoryCalls \cup
               {[kind |-> IF categoryForm.categoryToEdit # NoCategory
                          THEN "updateCategory" ELSE "addCategory",
                 id |-> categoryForm.categoryToEdit.id,
                 name |-> toUpperCase(categoryForm.name)]}
  /\ UNCHANGED <<categorySettled, managerVars, notCategory>>

\* handleSubmit after its await: onSuccess(); onClose(); or setError; finally
categorySubmitSettles ==
  \E c \in categoryCalls, ok \in BOOLEAN :
    /\ categoryCalls' = categoryCalls \ {c}
    /\ categoryForm' = [categoryForm EXCEPT
         !.isOpen = IF ok THEN FALSE ELSE @,
         !.error = IF ok THEN @ ELSE "Failed to save category",
         !.isSubmitting = FALSE]
    /\ categorySettled' = [handler |-> "handleSubmit", ok |-> ok,
                           called |-> IF ok THEN <<"onSuccess", "onClose">>
                                      ELSE <<>>]
    /\ IF ok THEN handleCategorySuccess ELSE UNCHANGED managerVars
    /\ UNCHANGED notCategory

\* setViewMode('categories'): a new instance mounts, its effect loads
mountManager ==
  /\ ~categoryManager.mounted /\ ~categoryForm.isOpen /\ ManagerBudget
  /\ categoryManager' = [ManagerInitial EXCEPT !.mounted = TRUE]
  /\ managerCalls' = [managerCalls EXCEPT !.fetch = @ + 1]
  /\ UNCHANGED <<categoryRefreshTrigger, categoryForm, categoryCalls,
                 categorySettled, notCategory>>

\* setViewMode(another view): the instance and its state are dropped, its
\* calls stay in flight
unmountManager ==
  /\ categoryManager.mounted /\ ~categoryForm.isOpen
  /\ categoryManager' = ManagerInitial
  /\ managerCalls' = [fetch |-> 0, delete |-> 0,
                      staleFetch |-> managerCalls.staleFetch + managerCalls.fetch,
                      staleDelete |-> managerCalls.staleDelete + managerCalls.delete]
  /\ UNCHANGED <<categoryRefreshTrigger, categoryForm, categoryCalls,
                 categorySettled, notCategory>>

\* the header's Add Category button or a row's edit button
openCategoryModal ==
  /\ categoryManager.mounted
  /\ categoryOpen

\* handleDelete of a listed row, confirmed, up to its await
managerDelete ==
  /\ categoryManager.mounted /\ ~categoryForm.isOpen /\ ManagerBudget
  /\ categoryManager.categories # <<>>
  /\ managerCalls' = [managerCalls EXCEPT !.delete = @ + 1]
  /\ UNCHANGED <<categoryRefreshTrigger, categoryManager, categoryForm,
                 categoryCalls, categorySettled, notCategory>>

\* loadData after `await fetchCategories()`
managerFetchSettles ==
  \E ok \in BOOLEAN :
    /\ managerCalls.fetch > 0
    /\ managerCalls' = [managerCalls EXCEPT !.fetch = @ - 1]
    /\ categoryManager' =
         IF ok
         THEN [categoryManager EXCEPT !.categories = <<"c1", "c2">>,
                                      !.loading = FALSE]
         ELSE [categoryManager EXCEPT !.error = "Failed to fetch categories",
                                      !.loading = FALSE]
    /\ categorySettled' = [handler |-> "loadData", ok |-> ok, called |-> <<>>]
    /\ UNCHANGED <<categoryRefreshTrigger, categoryForm, categoryCalls, notCategory>>

\* a delete that reports a failure and otherwise does nothing
handleDeleteForgetful ==
  \E ok \in BOOLEAN :
    /\ managerCalls.delete > 0
    /\ managerCalls' = [managerCalls EXCEPT !.delete = @ - 1]
    /\ categorySettled' = [handler |-> "handleDelete", ok |-> ok, called |-> <<>>]
    /\ UNCHANGED <<categoryManager, categoryRefreshTrigger, categoryForm,
                   categoryCalls, notCategory>>

\* handleDelete after `await deleteCategory(id)`: loadData(), or alert
managerDeleteSettles ==
  \E ok \in BOOLEAN :
    /\ managerCalls.delete > 0
    /\ IF ok
       THEN managerLoadData([managerCalls EXCEPT !.delete = @ - 1])
       ELSE /\ managerCalls' = [managerCalls EXCEPT !.delete = @ - 1]
            /\ UNCHANGED categoryManager
    /\ categorySettled' = [handler |-> "handleDelete", ok |-> ok, called |-> <<>>]
    /\ UNCHANGED <<categoryRefreshTrigger, categoryForm, categoryCalls, notCategory>>

\* a handler of an unmounted instance continues after its await: the state
\* setters do nothing, a successful delete still calls loadData
staleCallSettles ==
  \E ok \in BOOLEAN, kind \in {"loadData", "handleDelete"} :
    /\ IF kind = "loadData"
       THEN /\ managerCalls.staleFetch > 0
            /\ managerCalls' = [managerCalls EXCEPT !.staleFetch = @ - 1]
       ELSE /\ managerCalls.staleDelete > 0
            /\ managerCalls' = [managerCalls EXCEPT
                 !.staleDelete = @ - 1,
                 !.staleFetch = IF ok THEN @ + 1 ELSE @]
    /\ categorySettled' = [handler |-> kind, ok |-> ok, called |-> <<>>]
    /\ UNCHANGED <<categoryRefreshTrigger, categoryManager, categoryForm,
                   categoryCalls, notCategory>>

CategoryInit ==
  /\ categoryForm = CategoryInitial
  /\ categoryCalls = {}
  /\ categorySettled = NotSettled
  /\ categoryRefreshTrigger = 0
  /\ categoryManager = ManagerInitial
  /\ managerCalls = NoCalls

CategoryNext ==
  \/ categoryOpen
  \/ categoryClose
  \/ setCategoryName
  \/ categorySubmit
  \/ categorySubmitSettles

\* the categories view: the manager, and the modal used without retyping the
\* name
ManagerNext ==
  \/ mountManager
  \/ unmountManager
  \/ openCategoryModal
  \/ categoryClose
  \/ categorySubmit
  \/ categorySubmitSettles
  \/ managerDelete
  \/ managerFetchSettles
  \/ managerDeleteSettles
  \/ staleCallSettles

(***************************************************************************)
(* LoginPage (email step, passkey step, 2FA step) with services/auth and   *)
(* TwoFactorVerification.  A user is known by the email the check found.   *)
(***************************************************************************)
MaxLoginCalls == 2    \* calls and timers of the login page pending at once

\* the accounts of the backend and whether two_factor_enabled is set
TwoFactorEnabled == [u1 |-> TRUE, u2 |-> FALSE]
Accounts == DOMAIN TwoFactorEnabled
NoUser == "null"

LoginInitial ==
  [step |-> "email", foundUser |-> NoUser, requires2FA |-> FALSE,
   isLoading |-> FALSE, error |-> NoMessage]
TwoFactorInitial ==
  [code |-> <<>>, isLoading |-> FALSE, error |-> NoMessage,
   usedBackupCode |-> FALSE]

\* what can be typed or pasted into a code field: a value of at most
\* maxLength characters, digits, letters and others
loginMaxLength == 8
setupMaxLength == 6
Repeat(c, n) == [i \in 1..n |-> c]
TypedCodes ==
  {Repeat("1", n) : n \in {0, 5, 6, 7, 8}}
    \cup {Repeat("a", 8), <<"-">> \o Repeat("1", 6), <<"-">> \o Repeat("a", 7),
          <<"-">> \o Repeat("1", 5)}

IsAlphanumeric(c) == c \in {"1", "a", "A"}
IsDigit(c) == c = "1"
\* e.target.value.replace(/[^A-Za-z0-9]/g, '').toUpperCase()
loginCodeOf(value) == toUpperCase(SelectSeq(value, IsAlphanumeric))
\* e.target.value.replace(/\D/g, '')
setupCodeOf(value) == SelectSeq(value, IsDigit)

\* a check that lets any non-empty code through
AnyLoginCode(code) == code # <<>>

\* TwoFactorVerification.handleSubmit: the code passes unless
\* !code || (code.length !== 6 && code.length !== 8)
ValidLoginCode(code) == code # <<>> /\ ~(Len(code) # 6 /\ Len(code) # 8)

\* TwoFactorSetup.handleVerify: unless !verificationCode || length !== 6
ValidSetupCode(code) == code # <<>> /\ ~(Len(code) # 6)
NothingLogged == [found |-> {}, passkey |-> {}, verified |-> {}, onLogin |-> {}]

\* the page is rendered until App has been given a user
LoginShown == loginLog.onLogin = {}
LoginBudget == Cardinality(loginCalls) < MaxLoginCalls

\* App.handleLogin, called through the onLogin prop
onLogin(u, log) == [log EXCEPT !.onLogin = @ \cup {u}]

\* handleEmailSubmit up to its await, with the email typed
handleEmailSubmit ==
  \E email \in Accounts \cup {"stranger"} :
    /\ LoginShown /\ LoginBudget
    /\ login.step = "email" /\ ~login.isLoading
    /\ login' = [login EXCEPT !.isLoading = TRUE, !.error = NoMessage]
    /\ loginCalls' = loginCalls \cup {[kind |-> "checkUserEmail", user |-> email,
                                       requires2FA |-> FALSE]}
    /\ UNCHANGED <<twoFactor, loginLog, notLogin>>

\* handleEmailSubmit after `await checkUserEmail(email)`
emailSettles ==
  \E c \in loginCalls, ok \in BOOLEAN :
    /\ c.kind = "checkUserEmail"
    /\ loginCalls' = loginCalls \ {c}
    /\ IF ok /\ c.user \in Accounts
       THEN /\ login' = [login EXCEPT !.foundUser = c.user,
                                      !.requires2FA = TwoFactorEnabled[c.user],
                                      !.step = "passkey",
                                      !.isLoading = FALSE]
            /\ loginLog' = [loginLog EXCEPT !.found = @ \cup {c.user}]
       ELSE /\ login' = [login EXCEPT
                 !.error = IF ok THEN "Access denied. User not found."
                           ELSE "Failed to check user",
                 !.isLoading = FALSE]
            /\ UNCHANGED loginLog
    /\ UNCHANGED <<twoFactor, notLogin>>

\* handlePasskeyLogin / handlePasskeyRegistration up to the await
handlePasskey ==
  \E kind \in {"authenticateLocalPasskey", "registerLocalPasskey"} :
    /\ LoginShown /\ LoginBudget
    /\ login.step = "passkey" /\ ~login.isLoading
    /\ login' = [login EXCEPT !.isLoading = TRUE, !.error = NoMessage]
    /\ loginCalls' = loginCalls \cup {[kind |-> kind, user |-> login.foundUser,
                                       requires2FA |-> login.requires2FA]}
    /\ UNCHANGED <<twoFactor, loginLog, notLogin>>

\* a passkey handler that logs the user in whether or not 2FA is required
passkeyThenLogin ==
  \E c \in loginCalls, result \in {"true", "false", "throws"} :
    /\ c.kind \in {"authenticateLocalPasskey", "registerLocalPasskey"}
    /\ loginCalls' = loginCalls \ {c}
    /\ IF result = "true"
       THEN /\ loginLog' = onLogin(c.user, [loginLog EXCEPT !.passkey = @ \cup {c.user}])
            /\ login' = [login EXCEPT !.isLoading = FALSE]
       ELSE /\ login' = [login EXCEPT !.error = "Authentication failed.",
                                      !.isLoading = FALSE]
            /\ UNCHANGED loginLog
    /\ UNCHANGED <<twoFactor, notLogin>>

\* the passkey handlers after their await: the 2FA step if required, else
\* onLogin(foundUser); an error if the passkey call returned false or threw
passkeySettles ==
  \E c \in loginCalls, result \in {"true", "false", "throws"} :
    /\ c.kind \in {"authenticateLocalPasskey", "registerLocalPasskey"}
    /\ loginCalls' = loginCalls \ {c}
    /\ IF result = "true"
       THEN LET passed == [loginLog EXCEPT !.passkey = @ \cup {c.user}]
            IN  IF c.requires2FA
                THEN /\ login' = [login EXCEPT !.step = "2fa-verify",
                                               !.isLoading = FALSE]
                     /\ twoFactor' = TwoFactorInitial
                     /\ loginLog' = passed
                ELSE /\ login' = [login EXCEPT !.isLoading = FALSE]
                     /\ loginLog' = onLogin(c.user, passed)
                     /\ UNCHANGED twoFactor
       ELSE /\ login' = [login EXCEPT !.error = "Authentication failed.",
                                      !.isLoading = FALSE]
            /\ UNCHANGED <<twoFactor, loginLog>>
    /\ UNCHANGED notLogin

\* the code field of TwoFactorVerification
setCode ==
  \E value \in TypedCodes :
    /\ LoginShown
    /\ login.step = "2fa-verify"
    /\ Len(value) <= loginMaxLength
    /\ twoFactor' = [twoFactor EXCEPT !.code = loginCodeOf(value)]
    /\ UNCHANGED <<login, loginCalls, loginLog, notLogin>>

\* TwoFactorVerification.handleSubmit up to its await, with the code typed;
\* its button is disabled while loading or while the field is empty
handle2FASubmit ==
  /\ LoginShown /\ LoginBudget
  /\ login.step = "2fa-verify" /\ ~twoFactor.isLoading
  /\ twoFactor.code # <<>>
  /\ IF ValidLoginCode(twoFactor.code)
     THEN /\ twoFactor' = [twoFactor EXCEPT !.isLoading = TRUE,
                                            !.error = NoMessage]
          /\ loginCalls' = loginCalls \cup
               {[kind |-> "verify2FA", user |-> login.foundUser,
                 requires2FA |-> TRUE]}
     ELSE /\ twoFactor' = [twoFactor EXCEPT
               !.error = "Please enter a valid 6-digit code or 8-character backup code"]
          /\ UNCHANGED loginCalls
  /\ UNCHANGED <<login, loginLog, notLogin>>

\* TwoFactorVerification.handleSubmit after `await verify2FA(code, false)`:
\* onVerified() at once, or two seconds after a backup code was accepted
verifySettles ==
  \E c \in loginCalls, response \in {"verified", "usedBackupCode", "rejected", "throws"} :
    /\ c.kind = "verify2FA"
    /\ twoFactor' = [twoFactor EXCEPT
         !.isLoading = FALSE,
         !.usedBackupCode = IF response = "usedBackupCode" THEN TRUE ELSE @,
         !.error = IF response \in {"rejected", "throws"}
                   THEN "Verification failed. Please try again." ELSE @]
    /\ loginCalls' = (loginCalls \ {c}) \cup
         (IF response = "usedBackupCode"
          THEN {[kind |-> "setTimeout", user |-> c.user, requires2FA |-> TRUE]}
          ELSE {})
    /\ loginLog' =
         IF response = "verified"
         THEN onLogin(c.user, [loginLog EXCEPT !.verified = @ \cup {c.user}])
         ELSE IF response = "usedBackupCode"
         THEN [loginLog EXCEPT !.verified = @ \cup {c.user}]
         ELSE loginLog
    /\ UNCHANGED <<login, notLogin>>

\* the timer started after a backup code: onVerified()
timerFires ==
  \E c \in loginCalls :
    /\ c.kind = "setTimeout"
    /\ loginCalls' = loginCalls \ {c}
    /\ loginLog' = onLogin(c.user, loginLog)
    /\ UNCHANGED <<login, twoFactor, notLogin>>

\* 'Back to Login' of the 2FA screen
handle2FACancel ==
  /\ LoginShown
  /\ login.step = "2fa-verify" /\ ~twoFactor.isLoading
  /\ login' = [login EXCEPT !.step = "passkey"]
  /\ UNCHANGED <<twoFactor, loginCalls, loginLog, notLogin>>

\* 'Use a different email' of the passkey step
handleReset ==
  /\ LoginShown
  /\ login.step = "passkey" /\ ~login.isLoading
  /\ login' = [login EXCEPT !.step = "email", !.foundUser = NoUser,
                            !.error = NoMessage, !.requires2FA = FALSE]
  /\ UNCHANGED <<twoFactor, loginCalls, loginLog, notLogin>>

LoginInit ==
  /\ login = LoginInitial
  /\ twoFactor = TwoFactorInitial
  /\ loginCalls = {}
  /\ loginLog = NothingLogged

LoginNext ==
  \/ handleEmailSubmit
  \/ emailSettles
  \/ handlePasskey
  \/ passkeySettles
  \/ setCode
  \/ handle2FASubmit
  \/ verifySettles
  \/ timerFires
  \/ handle2FACancel
  \/ handleReset

(***************************************************************************)
(* TwoFactorSetup, the wizard the Dashboard shows while viewMode is         *)
(* '2fa-setup'.  The Dashboard is rendered once App has a user.            *)
(***************************************************************************)
MaxSetupCalls == 2    \* calls and timers of the wizard pending at once

SetupUnmounted ==
  [mounted |-> FALSE, step |-> "loading", qrCode |-> "", secret |-> "",
   backupCodes |-> <<>>, verificationCode |-> <<>>, isLoading |-> FALSE,
   error |-> NoMessage]
\* what enable2FA resolves with
Enable2FAResponse ==
  [qrCode |-> "otpauth://totp/expenses", secret |-> "JBSWY3DP",
   backupCodes |-> <<"AAAA1111", "BBBB2222">>]
SetupBudget == Cardinality(setupCalls) < MaxSetupCalls
\* the calls of an instance that is unmounted set no state when they settle
Orphaned(calls) == {[c EXCEPT !.stale = TRUE] : c \in calls}

\* the user opens the wizard: it mounts in step 'loading' and its effect
\* calls initiate2FA
openSetup ==
  /\ ~LoginShown /\ SetupBudget
  /\ ~setup.mounted
  /\ setup' = [SetupUnmounted EXCEPT !.mounted = TRUE]
  /\ setupCalls' = setupCalls \cup {[kind |-> "enable2FA", stale |-> FALSE]}
  /\ UNCHANGED notSetup

\* initiate2FA after `await enable2FA()`: the scan step, with the secret and
\* the backup codes or with an error
initiate2FA ==
  \E c \in setupCalls, ok \in BOOLEAN :
    /\ c.kind = "enable2FA"
    /\ setupCalls' = setupCalls \ {c}
    /\ setup' =
         IF c.stale THEN setup
         ELSE IF ok
         THEN [setup EXCEPT !.qrCode = Enable2FAResponse.qrCode,
                            !.secret = Enable2FAResponse.secret,
                            !.backupCodes = Enable2FAResponse.backupCodes,
                            !.step = "scan"]
         ELSE [setup EXCEPT !.error = "Failed to initialize 2FA",
                            !.step = "scan"]
    /\ UNCHANGED notSetup

\* 'Continue' of the scan step
continueToVerify ==
  /\ setup.mounted /\ setup.step = "scan"
  /\ setup' = [setup EXCEPT !.step = "verify"]
  /\ UNCHANGED <<setupCalls, notSetup>>

\* 'Back' of the verify step
backToScan ==
  /\ setup.mounted /\ setup.step = "verify" /\ ~setup.isLoading
  /\ setup' = [setup EXCEPT !.step = "scan"]
  /\ UNCHANGED <<setupCalls, notSetup>>

\* the code field of the verify step
setVerificationCode ==
  \E value \in TypedCodes :
    /\ setup.mounted /\ setup.step = "verify"
    /\ Len(value) <= setupMaxLength
    /\ setup' = [setup EXCEPT !.verificationCode = setupCodeOf(value)]
    /\ UNCHANGED <<setupCalls, notSetup>>

\* handleVerify up to its await; its button is disabled while loading or
\* while the code is not six characters long
handleVerify ==
  /\ setup.mounted /\ setup.step = "verify" /\ SetupBudget
  /\ ~setup.isLoading /\ Len(setup.verificationCode) = 6
  /\ IF ValidSetupCode(setup.verificationCode)
     THEN /\ setup' = [setup EXCEPT !.isLoading = TRUE, !.error = NoMessage]
          /\ setupCalls' = setupCalls \cup {[kind |-> "verify2FA", stale |-> FALSE]}
     ELSE /\ setup' = [setup EXCEPT !.error = "Please enter a valid 6-digit code"]
          /\ UNCHANGED setupCalls
  /\ UNCHANGED notSetup

\* handleVerify after `await verify2FA(verificationCode, true)`
setupVerifySettles ==
  \E c \in setupCalls, response \in {"enabled", "rejected", "throws"} :
    /\ c.kind = "verify2FA"
    /\ setupCalls' = (setupCalls \ {c}) \cup
         (IF response = "enabled"
          THEN {[kind |-> "setTimeout", stale |-> c.stale]} ELSE {})
    /\ setup' =
         IF c.stale THEN setup
         ELSE [setup EXCEPT
                 !.step = IF response = "enabled" THEN "success" ELSE @,
                 !.error = IF response = "rejected"
                           THEN "Verification failed. Please try again."
                           ELSE IF response = "throws"
                           THEN "Failed to verify code" ELSE @,
                 !.isLoading = FALSE]
    /\ UNCHANGED notSetup

\* the timer of the success step: onComplete(), which sets viewMode to
\* 'monthly' and so unmounts the wizard
setupCompletes ==
  \E c \in setupCalls :
    /\ c.kind = "setTimeout"
    /\ setup' = SetupUnmounted
    /\ setupCalls' = Orphaned(setupCalls \ {c})
    /\ UNCHANGED notSetup

\* 'Cancel' of the scan step (onCancel), or the user picks another view
leaveSetup ==
  /\ setup.mounted
  /\ setup' = SetupUnmounted
  /\ setupCalls' = Orphaned(setupCalls)
  /\ UNCHANGED notSetup

SetupInit ==
  /\ setup = SetupUnmounted
  /\ setupCalls = {}

\* the login page, then the wizard of the logged-in user
TwoFactorNext ==
  \/ handleEmailSubmit
  \/ emailSettles
  \/ handlePasskey
  \/ passkeySettles
  \/ setCode
  \/ handle2FASubmit
  \/ verifySettles
  \/ timerFires
  \/ handle2FACancel
  \/ handleReset
  \/ openSetup
  \/ initiate2FA
  \/ continueToVerify
  \/ backToScan
  \/ setVerificationCode
  \/ handleVerify
  \/ setupVerifySettles
  \/ setupCompletes
  \/ leaveSetup

(***************************************************************************)
(* Specifications                                                          *)
(***************************************************************************)
Init == SankeyInit /\ DashInit /\ FormInit /\ YearlyInit /\ ApiInit /\ BulkInit
        /\ CategoryInit /\ LoginInit /\ SetupInit

SpecSankey == Init /\ [][SankeyNext]_vars
SpecDash == Init /\ [][DashNext]_vars
SpecForm == Init /\ [][FormNext]_vars
SpecYearly == Init /\ [][YearlyNext]_vars
SpecApi == Init /\ [][ApiNext]_vars
SpecConfig == Init /\ [][ConfigNext]_vars
SpecBulk == Init /\ [][BulkNext]_vars
SpecCategory == Init /\ [][CategoryNext]_vars
SpecManager == Init /\ [][ManagerNext]_vars
SpecLogin == Init /\ [][LoginNext]_vars
SpecTwoFactor == Init /\ [][TwoFactorNext]_vars

(***************************************************************************)
(* C1: in the monthly Sankey graph the links entering 'income' carry the   *)
(* same total as the links leaving it (to SAVINGS and the expense          *)
(* categories), for any transaction list.                                  *)
(***************************************************************************)
C1_IncomeBalanced ==
  Inbound(skData.links, "income") = Outbound(skData.links, "income")

(***************************************************************************)
(* C7: in the four-column layout no link runs from 'income' straight to    *)
(* an expense category (they all pass through 'total-expenses'), and the   *)
(* link entering 'total-expenses' carries the sum of the links leaving it. *)
(***************************************************************************)
C7_TotalExpensesBalanced ==
  /\ \A i \in 1..Len(skModified) :
       skModified[i].source = "income" =>
         skModified[i].target \in {"SAVINGS", "total-expenses"}
  /\ Inbound(skModified, "total-expenses") = Outbound(skModified, "total-expenses")


(***************************************************************************)
(* C2: a step that completes a successful create, update, delete or bulk   *)
(* import started from the monthly dashboard issues a fetch of the month   *)
(* that is selected at that moment, and leaves the list state as it was    *)
(* (no local patch).                                                       *)
(***************************************************************************)
C2_RefetchesSelectedMonth ==
  refetch.done # "none" =>
    /\ refetch.fetched = month
    /\ transactions = refetch.before

(***************************************************************************)
(* C3: whenever no request is in flight (and no fetch error is showing),   *)
(* the list of the monthly view is the backend's answer for the selected   *)
(* month as of the last completed mutation.                                *)
(***************************************************************************)
C3_ListIsCurrentAnswer ==
  (requests = {} /\ viewMode = "monthly" /\ error = NoMessage) =>
    transactions = [month |-> month, ver |-> dbVersion[month]]

(***************************************************************************)
(* C5: every amount the transaction form submits is >= 0 when the chosen   *)
(* type is expense and <= 0 when it is income, whatever sign was typed     *)
(* and whatever the exchange rate.                                         *)
(***************************************************************************)
C5_SubmittedSign ==
  \A c \in formCalls : c.kind \in {"addTransaction", "updateTransaction"} =>
    /\ c.arg.type = "expense" => c.arg.payload.amount >= 0
    /\ c.arg.type = "income" => c.arg.payload.amount <= 0

\* an expense whose typed amount times rate was negative is on its way to the
\* backend with a positive amount
C5_Witness ==
  \E c \in formCalls :
    /\ c.kind = "addTransaction"
    /\ c.arg.type = "expense"
    /\ c.arg.typed < 0
    /\ c.arg.payload.amount > 0

(***************************************************************************)
(* C6: in the Sankey graph the yearly dashboard builds, for the whole year *)
(* and for any hovered month, the link values entering 'income' sum to the *)
(* link values leaving it.                                                 *)
(***************************************************************************)
C6_YearlyIncomeBalanced ==
  Inbound(yearlySankeyData(yearly).links, "income")
    = Outbound(yearlySankeyData(yearly).links, "income")

(***************************************************************************)
(* C8: every request the API client sends to the backend carries an        *)
(* Authorization header 'Bearer <token>' whose token has exactly three     *)
(* dot-separated segments, none of them empty.                             *)
(***************************************************************************)
C8_BearerThreeSegments ==
  (request # <<>> /\ request[1].backend) =>
    LET value == request[1].headers.Authorization
        token == SubSeq(value, 8, Len(value))
        NotDot(c) == c # "."
    IN  /\ Len(value) > 7
        /\ SubSeq(value, 1, 7) = <<"B", "e", "a", "r", "e", "r", " ">>
        /\ DotCount(token) = 2
        /\ token[1] # "." /\ token[Len(token)] # "."
        /\ \A i \in 1..(Len(token) - 1) : ~(token[i] = "." /\ token[i + 1] = ".")

\* a session request for a logged-in user whose email contains a dot, with a
\* signature whose encoding needed the '+' and '/' replacements
C8_Witness ==
  /\ request # <<>>
  /\ request[1].fn = "deleteCategory"
  /\ 46 \in {request[1].headers.email[i] : i \in 1..Len(request[1].headers.email)}
  /\ \E i \in 1..Len(request[1].headers.Authorization) :
        request[1].headers.Authorization[i] = "-"
  /\ \E i \in 1..Len(request[1].headers.Authorization) :
        request[1].headers.Authorization[i] = "_"

(***************************************************************************)
(* C9: a bulk import sends exactly one transaction for each selected       *)
(* template and none for an unselected one, each dated the first day of    *)
(* the target month and carrying the template's category.                  *)
(***************************************************************************)
C9_OnePerSelectedTemplate ==
  [][\A c \in bulkCalls' \ bulkCalls : c.kind = "addBulkTransactions" =>
       LET sent == c.arg
           shown == bulk.transactions
           For(id) == {k \in 1..Len(sent) : sent[k].name = id}
       IN  /\ \A i \in 1..Len(shown) :
                 IF shown[i].id \in bulk.selectedIds
                 THEN /\ Cardinality(For(shown[i].id)) = 1
                      /\ \A k \in For(shown[i].id) :
                           sent[k].category_name = shown[i].category
                 ELSE For(shown[i].id) = {}
           /\ \A k \in 1..Len(sent) :
                 /\ sent[k].trx_date = [month |-> bulk.targetMonth, day |-> 1]
                 /\ \E i \in 1..Len(shown) : shown[i].id = sent[k].name]_vars

\* an import on its way with one of the two shown templates deselected
C9_Witness ==
  \E c \in bulkCalls :
    /\ c.kind = "addBulkTransactions"
    /\ bulk.isSubmitting
    /\ Len(bulk.transactions) = 2
    /\ Cardinality(bulk.selectedIds) = 1
    /\ Len(c.arg) = 1
    /\ c.arg[1].name \in bulk.selectedIds

(***************************************************************************)
(* C10: every category name the client sends when adding or renaming a     *)
(* category equals its own upper-casing, whatever the user typed.          *)
(***************************************************************************)
C10_SentNameUpperCase ==
  \A c \in categoryCalls :
    \A i \in 1..Len(c.name) : UpperOf(c.name[i]) = <<c.name[i]>>

\* a rename on its way whose typed name held a lower-case letter and a
\* character that upper-cases to two
C10_Witness ==
  \E c \in categoryCalls :
    /\ c.kind = "updateCategory"
    /\ categoryForm.isSubmitting
    /\ categoryForm.name = <<"a", "ß">>
    /\ c.name = <<"A", "S", "S">>

(***************************************************************************)
(* C4: every failed network call results in its error message being shown  *)
(* to the user; here for the calls of the yearly dashboard (the summary,   *)
(* the year's transactions, the month-filter fetch): when a call has just  *)
(* settled as failed, the error banner holds a message.                    *)
(***************************************************************************)
C4_FailureShown ==
  yearlyFailed => yearly.error # NoMessage

(***************************************************************************)
(* C20: whenever a transaction fetch started by the monthly dashboard is   *)
(* still in flight, the dashboard's loading flag is true.                  *)
(***************************************************************************)
C20_LoadingWhileFetching ==
  (\E r \in requests : r.kind = "fetch") => loading

(***************************************************************************)
(* C18: the exchange rate a form submission applies is that of the         *)
(* currency selected at that moment; in particular a transaction           *)
(* submitted with AUD selected is converted at rate 1, never at a rate     *)
(* fetched for a currency that was selected earlier.                       *)
(***************************************************************************)
C18_RateOfSelectedCurrency ==
  [][\A c \in formCalls' \ formCalls :
       (c.kind \in {"addTransaction", "updateTransaction"}
          /\ form.currency = "AUD") => form.fxRate = RateOne]_vars

(***************************************************************************)
(* C12: a failed request is never re-issued automatically.  A step of the  *)
(* dashboard starts at most one request, and the step in which a failed    *)
(* request is handled (banner, alert or modal error) starts none.          *)
(***************************************************************************)
C12_NoAutomaticRetry ==
  [][LET started == {r.id : r \in requests'} \ {r.id : r \in requests}
         handled == {r \in requests : r.id \notin {q.id : q \in requests'}}
     IN  /\ Cardinality(started) <= 1
         /\ (\E r \in handled : r.status = "failed") => started = {}]_vars

\* a fetch and a delete have both failed and been reported, and nothing is
\* in flight
C12_Witness ==
  /\ requests = {}
  /\ error = "Failed to fetch transactions"
  /\ alerted = "Failed to delete"

C16_DefaultsWhenUnset ==
  (/\ request # <<>> /\ request[1].backend
   /\ environment.meta \in {<<>>, <<Unset>>}
   /\ environment.process \in {<<>>, <<Unset>>})
  => /\ request[1].api_key \notin {<<>>, <<"">>}
     /\ SubSeq(request[1].url, 1, 8) = "https://"

(***************************************************************************)
(* C17: the login page passes a user to onLogin only after the email check *)
(* found that user and a passkey authentication or registration succeeded  *)
(* for them, and, when the user has two-factor authentication enabled,     *)
(* only after a 2FA verification succeeded as well.                        *)
(***************************************************************************)
C17_LoginOnlyAfterAllChecks ==
  \A u \in loginLog.onLogin :
    /\ u \in loginLog.found
    /\ u \in loginLog.passkey
    /\ TwoFactorEnabled[u] => u \in loginLog.verified

\* the user with 2FA enabled has been logged in
C17_Witness ==
  /\ "u1" \in loginLog.onLogin
  /\ "u1" \in loginLog.verified

(***************************************************************************)
(* C14: every node the layout positions with value 0 is at least 15 px     *)
(* high, in any of the four columns.                                       *)
(***************************************************************************)
C14_ZeroValueNodesVisible ==
  LET positions == skLayout.nodes
  IN  \A i \in 1..Len(positions) :
         positions[i].value = 0 => Leq(Num(15), positions[i].height)

(***************************************************************************)
(* C15: within a column of the chart (here the yearly view's) the nodes     *)
(* follow each other downwards, each starting nodeGap below the bottom     *)
(* edge of the one before it.                                              *)
(***************************************************************************)
columnOf(type) ==
  IF type \in {"savings", "total-expenses"} THEN 3
  ELSE IF type = "income" THEN 1 ELSE IF type = "total" THEN 2 ELSE 4

C15_ColumnsStackedWithNodeGap ==
  LET positions == yearlyPositions
  IN  \A i \in 1..Len(positions) - 1 :
         LET above == positions[i]
             below == positions[i + 1]
         IN  columnOf(above.type) = columnOf(below.type) =>
               /\ Leq(Num(0), above.height)
               /\ Equal(below.y, Plus(above.y, Plus(above.height, Num(nodeGap))))

(***************************************************************************)
(* C13: at each end of a ribbon, thickness * (total flow of the end node)  *)
(* = link value * (height of the node), the total flow of a node being the *)
(* larger of the sums of the drawn link values entering and leaving it;    *)
(* every ribbon end lies within its node, and the ribbons on one side of a *)
(* node are together no thicker than the node is high.                     *)
(***************************************************************************)
flowOf(id) == Max(Inbound(skModified, id), Outbound(skModified, id))

C13_RibbonsProportionalAndStacked ==
  LET positions == skLayout.nodes
      ribbons == skLayout.links
  IN
  /\ \A i \in 1..Len(ribbons) :
       LET p == ribbons[i]
           sourceNode == positionOf(positions, p.source)[1]
           targetNode == positionOf(positions, p.target)[1]
       IN  /\ Equal(Times(p.sourceLinkHeight, Num(flowOf(p.source))),
                    Times(Num(p.value), sourceNode.height))
           /\ Equal(Times(p.targetLinkHeight, Num(flowOf(p.target))),
                    Times(Num(p.value), targetNode.height))
           /\ Leq(sourceNode.y, p.sourceY)
           /\ Leq(Plus(p.sourceY, p.sourceLinkHeight),
                  Plus(sourceNode.y, sourceNode.height))
           /\ Leq(targetNode.y, p.targetY)
           /\ Leq(Plus(p.targetY, p.targetLinkHeight),
                  Plus(targetNode.y, targetNode.height))
  /\ \A j \in 1..Len(positions) :
       LET node == positions[j]
           Leaves(p) == p.source = node.id
           Enters(p) == p.target = node.id
           AtSource(p) == p.sourceLinkHeight
           AtTarget(p) == p.targetLinkHeight
       IN  /\ FilterSeq(ribbons, Leaves) # <<>> =>
                Leq(SumNumbers(MapSeq(FilterSeq(ribbons, Leaves), AtSource)),
                    node.height)
           /\ FilterSeq(ribbons, Enters) # <<>> =>
                Leq(SumNumbers(MapSeq(FilterSeq(ribbons, Enters), AtTarget)),
                    node.height)

(***************************************************************************)
(* C21: in the yearly view, when the chart is shown, no month is hovered   *)
(* and no fetch is pending, the Sankey data is the one built from all the  *)
(* transactions of the selected year.                                      *)
(***************************************************************************)
C21_YearTitleShowsYear ==
  (ChartShown /\ yearly.activeMonthIndex = NoMonth /\ yearlyCalls = {}) =>
     yearlySankeyData(yearly) =
       yearlySankeyData([yearly EXCEPT !.transactions = ledger])

FormFieldEmpty ==
  form.categoryName = "" \/ form.name = "" \/ form.amount = <<>>
    \/ form.date = "" \/ form.fxRate = <<>>

FieldsAsPopulated ==
  /\ form.transactionToEdit # NoEdit
  /\ LET shown == Populated(form, form.transactionToEdit)
     IN  /\ form.type = shown.type /\ form.amount = shown.amount
         /\ form.currency = shown.currency /\ form.date = shown.date
         /\ form.name = shown.name /\ form.categoryName = shown.categoryName

C24_UnchangedEditKeepsAmount ==
  [][\A c \in formCalls' \ formCalls :
       (c.kind = "updateTransaction" /\ FieldsAsPopulated) =>
          c.arg.payload.amount * 10 = form.transactionToEdit[1]]_vars

(***************************************************************************)
(* C25: a step that hands a backend request to fetch gives it a token      *)
(* whose payload is the encoding of exactly one email: the email supplied  *)
(* by the caller for the login page's calls, otherwise the email of the    *)
(* user logged in at that moment, and the empty email when nobody is       *)
(* logged in (so never the email of a user who has logged out).            *)
(***************************************************************************)
\* 'Bearer ' and the first two segments of the token that carries an email
TokenStart ==
  [email \in Emails \cup {NoEmail}, exp \in ExpJson |->
     <<"B", "e", "a", "r", "e", "r", " ">> \o base64UrlEncode(HeaderJson)
       \o <<".">> \o base64UrlEncode(PayloadJson(email, exp)) \o <<".">>]

EncodesEmail(authorization, email) ==
  \E exp \in ExpJson :
     /\ Len(authorization) > Len(TokenStart[email, exp])
     /\ SubSeq(authorization, 1, Len(TokenStart[email, exp])) = TokenStart[email, exp]

C25_CredentialEmail ==
  [][(request' # request /\ request' # <<>> /\ request'[1].backend) =>
       LET sent == request'[1]
           expected == IF sent.fn \in PreLoginCalls THEN sent.emailOverride
                       ELSE IF user # <<>> THEN user[1] ELSE NoEmail
       IN  \A email \in Emails \cup {NoEmail} :
              EncodesEmail(sent.headers.Authorization, email) <=> email = expected]_vars

\* a request made on behalf of the logged-in user carries that user's email
C25_Witness ==
  /\ request # <<>> /\ request[1].fn \in SessionCalls
  /\ user # <<>>
  /\ EncodesEmail(request[1].headers.Authorization, user[1])

(***************************************************************************)
(* C26: in each modal form and on the login page a step starts a submit    *)
(* request only when none of that form is in flight, and while one is in   *)
(* flight the form's pending flag, which disables its submit control, is   *)
(* set.                                                                    *)
(***************************************************************************)
FormSubmits == {c \in formCalls : c.kind \in {"addTransaction", "updateTransaction"}}
BulkSubmits == {c \in bulkCalls : c.kind = "addBulkTransactions"}
LoginRequests == {c \in loginCalls : c.kind # "setTimeout"}

AppShows == IF user = <<>> THEN "LoginPage" ELSE "Dashboard"

C27_StoredUserIffLoggedIn ==
  /\ (localStorageUser # <<>>) <=> (user # <<>>)
  /\ user # <<>> => localStorageUser = user
  /\ (AppShows = "Dashboard") <=> (localStorageUser # <<>>)
  /\ (AppShows = "LoginPage") <=> (localStorageUser = <<>>)

\* after a login, a request, a logout and the login of someone else: the
\* dashboard is shown for the second user, whose entry is the stored one
C27_Witness ==
  /\ AppShows = "Dashboard"
  /\ localStorageUser = user
  /\ request # <<>>
  /\ request[1].fn \in SessionCalls
  /\ \E e \in Emails \ {user[1]} :
       EncodesEmail(request[1].headers.Authorization, e)

(***************************************************************************)
(* C28: a verify request is sent from the login screen only for a code of  *)
(* exactly 6 or exactly 8 characters and from the setup wizard only for a  *)
(* code of exactly 6 characters; a submit with a code of another length    *)
(* shows the error message and sends nothing.                              *)
(***************************************************************************)
C28_VerifyOnlyForFullCode ==
  [][/\ (\E c \in loginCalls' \ loginCalls : c.kind = "verify2FA") =>
          Len(twoFactor.code) \in {6, 8}
     /\ (\E c \in setupCalls' \ setupCalls : c.kind = "verify2FA" /\ ~c.stale) =>
          Len(setup.verificationCode) = 6
     /\ (handle2FASubmit /\ Len(twoFactor.code) \notin {6, 8}) =>
          /\ loginCalls' = loginCalls
          /\ twoFactor'.error =
               "Please enter a valid 6-digit code or 8-character backup code"
     /\ (handleVerify /\ Len(setup.verificationCode) # 6) =>
          /\ setupCalls' = setupCalls
          /\ setup'.error = "Please enter a valid 6-digit code"]_vars

\* the user logged in with an 8-character backup code and the wizard has a
\* verify request in flight for a 6-digit code
C28_Witness ==
  /\ twoFactor.code = Repeat("A", 8)
  /\ loginLog.verified # {}
  /\ setup.mounted /\ Len(setup.verificationCode) = 6
  /\ \E c \in setupCalls : c.kind = "verify2FA" /\ ~c.stale

\* a 7-character code was submitted at login: the message, and no request
C28_Refused ==
  /\ Len(twoFactor.code) = 7
  /\ twoFactor.error = "Please enter a valid 6-digit code or 8-character backup code"
  /\ loginCalls = {}

(***************************************************************************)
(* C29: whenever the setup wizard is in its verify step, it holds a secret *)
(* and backup codes obtained from enable2FA.                               *)
(***************************************************************************)
C29_VerifyStepHasSecret ==
  (setup.mounted /\ setup.step = "verify") =>
    /\ setup.secret # ""
    /\ setup.backupCodes # <<>>

(***************************************************************************)
(* C30: after the chart has computed its layout, the nodes and links       *)
(* arrays it was given hold the same elements in the same order as before. *)
(***************************************************************************)
\* the props after the layout memo of components/SankeyChart.tsx ran:
\* `links.sort((a, b) => b.value - a.value).map(...)` sorts the array it was
\* given; nodes is only read (filter, find)
propsAfterLayout ==
  [nodes |-> skData.nodes, links |-> SortDesc(skData.links)]

C30_PropsUnchanged == propsAfterLayout = skData

====
